---- MODULE Spec2Model ----
(***************************************************************************)
(* NYC Landmarks Research Agent: the in-process Memory Store               *)
(* (src/services/memory_service.py) and the report pipeline                *)
(* (src/services/research_service.py) that reads and appends to it.        *)
(*                                                                         *)
(* Representation.  A Python str is a sequence of one-character strings,   *)
(* a list is a sequence, and an Optional value is a sequence of length at  *)
(* most one: None is <<>> and a present value v is <<v>>.  A conversation  *)
(* id is an atomic string (a uuid4 result or a string a client made up).   *)
(* MemoryEntry.timestamp is not modelled: it always equals the             *)
(* conversation's updated_at at the moment of the append.                  *)
(***************************************************************************)
EXTENDS Integers, Sequences, FiniteSets, TLC

(* ------------------------------ bounds -------------------------------- *)

\* The clock runs from 0 to MaxTime.
MaxTime == 2
\* MEMORY_TTL_SECONDS is drawn from 0..MaxTTL.
MaxTTL == 1
\* The store never holds more than MaxEntries entries in all.
MaxEntries == 2

\* Results of uuid4() (create_conversation) and ids a client may make up.
UuidPool == {"u1"}
ClientIds == {"c1"}
ConvIds == UuidPool \cup ClientIds

(* --------------------------- Optional, str ----------------------------- *)

None == <<>>
Some(v) == <<v>>
\* Python truthiness of an Optional[str]: neither None nor "".
Truthy(o) == o # None /\ Len(o[1]) > 0

LP1 == <<"L", "P", "-", "0", "0", "0", "0", "1">>
LP2 == <<"L", "P", "-", "0", "0", "0", "0", "2">>
EmptyStr == <<>>

VARIABLES
    memory_enabled,   \* MemoryService.memory_enabled
    ttl_seconds,      \* MemoryService.ttl_seconds
    now,              \* datetime.now(), in seconds
    conversations,    \* MemoryService.conversations: id -> Conversation
    issued,           \* the uuid4 results handed out so far
    ret,              \* the last Memory Store call made by a client, with its result
    calls,            \* per id: the add_entry calls made since the conversation under it began
    req,              \* per request: the position and locals of generate_report
    pure,             \* a function of the service called on its own: arguments and result
    inbound           \* POST /generate: the ResearchRequest each handler is serving

vars == <<memory_enabled, ttl_seconds, now, conversations, issued, ret, calls, req, pure, inbound>>

(* ---------------------------- Memory Store ----------------------------- *)

Conversation(id, t) ==
    [id |-> id, created_at |-> t, updated_at |-> t, entries |-> <<>>,
     landmark_focus |-> None]

\* Mutant of MemoryEntry: the entry does not record its conversation.
MemoryEntryUnkeyed(conversation_id, query, response, landmark_ids, landmark_names, sources_used) ==
    [conversation_id |-> "", query |-> query, response |-> response,
     landmark_ids |-> landmark_ids, landmark_names |-> landmark_names,
     sources_used |-> sources_used]
MemoryEntry(conversation_id, query, response, landmark_ids, landmark_names, sources_used) ==
    [conversation_id |-> conversation_id, query |-> query, response |-> response,
     landmark_ids |-> landmark_ids, landmark_names |-> landmark_names,
     sources_used |-> sources_used]

\* Mutants of Expired: the subtraction turned round; expiry at age = ttl.
ExpiredReversed(c, t, ttl) == c.updated_at - t > ttl
ExpiredAtTtl(c, t, ttl) == t - c.updated_at >= ttl
Expired(c, t, ttl) == t - c.updated_at > ttl

\* Mutant of _cleanup_expired: the conversations that stay are touched.
_cleanup_expiredTouches(convs, enabled, t, ttl) ==
    IF ~enabled THEN convs
    ELSE [id \in {i \in DOMAIN convs : ~Expired(convs[i], t, ttl)} |->
            [convs[id] EXCEPT !.updated_at = t]]
_cleanup_expired(convs, enabled, t, ttl) ==
    IF ~enabled THEN convs
    ELSE [id \in {i \in DOMAIN convs : ~Expired(convs[i], t, ttl)} |-> convs[id]]

\* Lines 90-91: the entry goes to the end of the list and updated_at is reset.
\* Mutant of AppendEntry: the entry is inserted at the front.
PrependEntry(c, entry, t) ==
    [c EXCEPT !.entries = <<entry>> \o @, !.updated_at = t]
AppendEntry(c, entry, t) ==
    [c EXCEPT !.entries = Append(@, entry), !.updated_at = t]

\* Lines 93-95: the focus is set when that of the conversation is falsy.
FocusAfter(c, landmark_ids) ==
    IF landmark_ids # <<>> /\ ~Truthy(c.landmark_focus)
    THEN Some(landmark_ids[1]) ELSE c.landmark_focus

\* Mutant of add_entry: an id that is not in the store gets no conversation.
add_entry_requires_existing(convs, conversation_id, query, response, landmark_ids, landmark_names, sources_used, t, ttl) ==
    LET swept == _cleanup_expired(convs, TRUE, t, ttl)
        entry == MemoryEntry(conversation_id, query, response, landmark_ids,
                             landmark_names, sources_used)
    IN [id \in DOMAIN swept |->
            IF id = conversation_id
            THEN [AppendEntry(swept[id], entry, t) EXCEPT
                    !.landmark_focus = FocusAfter(swept[id], landmark_ids)]
            ELSE swept[id]]
\* Mutant of add_entry: the test "conversation_id not in self.conversations"
\* is missing, so every call starts the conversation anew.
add_entry_recreates(convs, conversation_id, query, response, landmark_ids, landmark_names, sources_used, t, ttl) ==
    LET swept == _cleanup_expired(convs, TRUE, t, ttl)
        entry == MemoryEntry(conversation_id, query, response, landmark_ids,
                             landmark_names, sources_used)
        c1 == [AppendEntry(Conversation(conversation_id, t), entry, t) EXCEPT
                 !.landmark_focus = FocusAfter(Conversation(conversation_id, t), landmark_ids)]
    IN [id \in DOMAIN swept \cup {conversation_id} |->
            IF id = conversation_id THEN c1 ELSE swept[id]]
\* Mutant of add_entry: the expiry sweep is missing.
add_entry_unswept(convs, conversation_id, query, response, landmark_ids, landmark_names, sources_used, t, ttl) ==
    LET c0 == IF conversation_id \in DOMAIN convs THEN convs[conversation_id]
              ELSE Conversation(conversation_id, t)
        entry == MemoryEntry(conversation_id, query, response, landmark_ids,
                             landmark_names, sources_used)
        c1 == [AppendEntry(c0, entry, t) EXCEPT
                    !.landmark_focus = FocusAfter(c0, landmark_ids)]
    IN [id \in DOMAIN convs \cup {conversation_id} |->
            IF id = conversation_id THEN c1 ELSE convs[id]]
\* conversations after add_entry (memory enabled).
add_entry(convs, conversation_id, query, response, landmark_ids, landmark_names, sources_used, t, ttl) ==
    LET swept == _cleanup_expired(convs, TRUE, t, ttl)
        c0 == IF conversation_id \in DOMAIN swept THEN swept[conversation_id]
              ELSE Conversation(conversation_id, t)
        entry == MemoryEntry(conversation_id, query, response, landmark_ids,
                             landmark_names, sources_used)
        c1 == [AppendEntry(c0, entry, t) EXCEPT
                    !.landmark_focus = FocusAfter(c0, landmark_ids)]
    IN [id \in DOMAIN swept \cup {conversation_id} |->
            IF id = conversation_id THEN c1 ELSE swept[id]]

\* Mutant of HistoryOf: the pairs are listed newest first.
HistoryOfNewestFirst(c) ==
    [i \in 1..Len(c.entries) |->
        [query |-> c.entries[Len(c.entries) + 1 - i].query,
         response |-> c.entries[Len(c.entries) + 1 - i].response]]
\* The list get_conversation_history builds from a conversation's entries.
HistoryOf(c) == [i \in 1..Len(c.entries) |->
                    [query |-> c.entries[i].query, response |-> c.entries[i].response]]

\* Mutant of delete_conversation: the del statement is missing.
delete_conversation_keeps(convs, conversation_id) == convs
delete_conversation(convs, conversation_id) ==
    [id \in DOMAIN convs \ {conversation_id} |-> convs[id]]

\* The add_entry calls that still count for each id once the store is convs2:
\* the log of an id restarts when the conversation under it is removed.
SameConversation(convs1, convs2, id) ==
    /\ id \in DOMAIN convs1
    /\ id \in DOMAIN convs2
    /\ convs2[id].created_at = convs1[id].created_at
CallsKept(convs1, convs2) ==
    [id \in ConvIds |-> IF SameConversation(convs1, convs2, id) THEN calls[id] ELSE <<>>]

RECURSIVE SumEntries(_, _)
SumEntries(convs, ids) ==
    IF ids = {} THEN 0
    ELSE LET id == CHOOSE i \in ids : TRUE
         IN Len(convs[id].entries) + SumEntries(convs, ids \ {id})
TotalEntries(convs) == SumEntries(convs, DOMAIN convs)

\* No client call is returning: the caller has taken the last result.
NoRet == [op |-> "none", val |-> TRUE, expired |-> {}]

\* The ids _cleanup_expired removes (it logs each one).
ExpiredIds(convs, enabled, t, ttl) == DOMAIN convs \ DOMAIN _cleanup_expired(convs, enabled, t, ttl)

\* Mutant of delete_conversation_ret: the memory_enabled test is missing.
delete_conversation_ret_unguarded(convs, enabled, conversation_id) ==
    conversation_id \in DOMAIN convs
\* What delete_conversation returns.
delete_conversation_ret(convs, enabled, conversation_id) ==
    IF ~enabled THEN TRUE ELSE conversation_id \in DOMAIN convs

(* ------------------- the Memory Store called directly ------------------- *)

CreateConversation(u) ==
    /\ u \notin issued
    /\ issued' = issued \cup {u}
    /\ conversations' = IF memory_enabled
                        THEN [id \in DOMAIN conversations \cup {u} |->
                                IF id = u THEN Conversation(u, now) ELSE conversations[id]]
                        ELSE conversations
    /\ calls' = calls
    /\ ret' = [op |-> "create_conversation", val |-> u, expired |-> {}]
    /\ UNCHANGED <<inbound, pure, memory_enabled, ttl_seconds, now, req>>

AddEntry(id, query, response, landmark_ids) ==
    /\ TotalEntries(conversations) < MaxEntries
    /\ IF memory_enabled
       THEN LET after == add_entry(conversations, id, query, response, landmark_ids,
                                   <<>>, <<>>, now, ttl_seconds)
                swept == _cleanup_expired(conversations, TRUE, now, ttl_seconds)
            IN /\ conversations' = after
               /\ calls' = [CallsKept(conversations, swept) EXCEPT
                              ![id] = Append(@, [query |-> query, response |-> response])]
       ELSE UNCHANGED <<conversations, calls>>
    /\ ret' = [op |-> "add_entry", val |-> TRUE,
               expired |-> ExpiredIds(conversations, memory_enabled, now, ttl_seconds)]
    /\ UNCHANGED <<inbound, pure, memory_enabled, ttl_seconds, now, issued, req>>

GetConversation(id) ==
    /\ IF memory_enabled
       THEN LET swept == _cleanup_expired(conversations, TRUE, now, ttl_seconds)
            IN /\ conversations' = swept
               /\ calls' = CallsKept(conversations, swept)
               /\ ret' = [op |-> "get_conversation",
                          val |-> IF id \in DOMAIN swept THEN Some(swept[id]) ELSE None,
                          expired |-> DOMAIN conversations \ DOMAIN swept]
       ELSE /\ UNCHANGED <<conversations, calls>>
            /\ ret' = [op |-> "get_conversation", val |-> None, expired |-> {}]
    /\ UNCHANGED <<inbound, pure, memory_enabled, ttl_seconds, now, issued, req>>

get_conversation_history(convs, enabled, id, t, ttl) ==
    IF ~enabled THEN <<>>
    ELSE LET swept == _cleanup_expired(convs, TRUE, t, ttl)
         IN IF id \in DOMAIN swept THEN HistoryOf(swept[id]) ELSE <<>>

GetConversationHistory(id) ==
    /\ conversations' = _cleanup_expired(conversations, memory_enabled, now, ttl_seconds)
    /\ calls' = CallsKept(conversations, conversations')
    /\ ret' = [op |-> "get_conversation_history",
               val |-> get_conversation_history(conversations, memory_enabled, id,
                                                now, ttl_seconds),
               expired |-> ExpiredIds(conversations, memory_enabled, now, ttl_seconds)]
    /\ UNCHANGED <<inbound, pure, memory_enabled, ttl_seconds, now, issued, req>>

DeleteConversation(id) ==
    /\ conversations' = IF memory_enabled THEN delete_conversation(conversations, id)
                        ELSE conversations
    /\ calls' = CallsKept(conversations, conversations')
    /\ ret' = [op |-> "delete_conversation",
               val |-> delete_conversation_ret(conversations, memory_enabled, id),
               expired |-> {}]
    /\ UNCHANGED <<inbound, pure, memory_enabled, ttl_seconds, now, issued, req>>

\* Time passes.
Tick ==
    /\ now < MaxTime
    /\ now' = now + 1
    /\ ret' = NoRet
    /\ UNCHANGED <<inbound, pure, memory_enabled, ttl_seconds, conversations, issued, calls, req>>

\* What a client passes to add_entry when it calls the store directly.
Resp1 == <<"r">>
EntryInputs ==
    {[query |-> "q1", landmark_ids |-> <<>>],
     [query |-> "q2", landmark_ids |-> <<EmptyStr>>],
     [query |-> "q3", landmark_ids |-> <<LP1>>],
     [query |-> "q4", landmark_ids |-> <<LP2, LP1>>]}

NoReq == [pc |-> "idle"]
\* No function is being called on its own.
NoPure == [f |-> "none"]
Reqs == {"r1", "r2"}
\* No handler of POST /generate is serving a request.
NoInbound == [r \in Reqs |-> None]

InitStore ==
    /\ memory_enabled \in BOOLEAN
    /\ ttl_seconds \in 0..MaxTTL
    /\ now = 0
    /\ conversations = <<>>
    /\ issued = {}
    /\ ret = NoRet
    /\ calls = [id \in ConvIds |-> <<>>]
    /\ req = [r \in Reqs |-> NoReq]
    /\ pure = NoPure
    /\ inbound = NoInbound

\* The ids a client can pass: those it made up and the uuids it was given.
KnownIds == ClientIds \cup issued

StoreOp ==
    \/ \E u \in UuidPool : CreateConversation(u)
    \/ \E id \in KnownIds, e \in EntryInputs : AddEntry(id, e.query, Resp1, e.landmark_ids)
    \/ \E id \in KnownIds : GetConversation(id)
    \/ \E id \in KnownIds : GetConversationHistory(id)
    \/ \E id \in KnownIds : DeleteConversation(id)

NextStore == StoreOp \/ Tick

SpecStore == InitStore /\ [][NextStore]_vars

(* ------------------- report pipeline: pure functions -------------------- *)

Digits == {"0", "1", "2", "3", "4", "5", "6", "7", "8", "9"}
\* The length of a match of r"LP-\d{5}".
IdLen == 8
\* re.match(r"LP-\d{5}", text[i-1:]) succeeds.
MatchAt(text, i) ==
    /\ i + IdLen - 1 <= Len(text)
    /\ text[i] = "L"
    /\ text[i + 1] = "P"
    /\ text[i + 2] = "-"
    /\ \A k \in 3..(IdLen - 1) : text[i + k] \in Digits

\* re.findall: the non-overlapping matches, leftmost first.
RECURSIVE FindAll(_, _)
FindAll(text, i) ==
    IF i > Len(text) THEN <<>>
    ELSE IF MatchAt(text, i)
         THEN <<SubSeq(text, i, i + IdLen - 1)>> \o FindAll(text, i + IdLen)
         ELSE FindAll(text, i + 1)

InSeq(x, seq) == \E i \in 1..Len(seq) : seq[i] = x

\* for lpc_id in ids: if lpc_id not in landmark_ids: landmark_ids.append(lpc_id)
RECURSIVE Dedupe(_, _)
\* Mutant of Dedupe: the test "lpc_id not in landmark_ids" is missing.
DedupeNot(ids, acc) ==
    IF ids = <<>> THEN acc
    ELSE Dedupe(Tail(ids), Append(acc, Head(ids)))
Dedupe(ids, acc) ==
    IF ids = <<>> THEN acc
    ELSE Dedupe(Tail(ids), IF InSeq(Head(ids), acc) THEN acc ELSE Append(acc, Head(ids)))

\* (landmark_names, landmark_ids)
_extract_landmarks_from_text(text) ==
    [landmark_names |-> <<>>, landmark_ids |-> Dedupe(FindAll(text, 1), <<>>)]

\* sorted(passages, key=relevance_score, reverse=True): stable, so passages of
\* equal score keep their order.
RECURSIVE InsertByScore(_, _)
\* Mutant of InsertByScore: a passage goes before the ones of equal score.
InsertByScoreUnstable(p, sorted) ==
    IF sorted = <<>> THEN <<p>>
    ELSE IF Head(sorted).relevance_score > p.relevance_score
         THEN <<Head(sorted)>> \o InsertByScore(p, Tail(sorted))
         ELSE <<p>> \o sorted
InsertByScore(p, sorted) ==
    IF sorted = <<>> THEN <<p>>
    ELSE IF Head(sorted).relevance_score >= p.relevance_score
         THEN <<Head(sorted)>> \o InsertByScore(p, Tail(sorted))
         ELSE <<p>> \o sorted
RECURSIVE SortByScore(_)
SortByScore(passages) ==
    IF passages = <<>> THEN <<>>
    ELSE InsertByScore(passages[Len(passages)], SortByScore(SubSeq(passages, 1, Len(passages) - 1)))

\* A SourceDocument is a model object: it carries its class next to its fields.
SourceDocument(passage) ==
    [cls |-> "SourceDocument", source_id |-> passage.source_id, source_type |-> "pdf", title |-> passage.source_title,
     content |-> passage.text, page |-> passage.page_number,
     relevance_score |-> passage.relevance_score,
     metadata |-> passage.metadata @@ ("landmark_id" :> passage.landmark_id)]

RECURSIVE PickSources(_, _, _, _)
PickSources(sorted_passages, max_sources, sources, seen_source_ids) ==
    IF sorted_passages = <<>> \/ Len(sources) >= max_sources THEN sources
    ELSE LET passage == Head(sorted_passages)
         IN IF passage.source_id \in seen_source_ids
            THEN PickSources(Tail(sorted_passages), max_sources, sources, seen_source_ids)
            ELSE PickSources(Tail(sorted_passages), max_sources,
                             Append(sources, SourceDocument(passage)),
                             seen_source_ids \cup {passage.source_id})

_prepare_sources(passages, max_sources) ==
    PickSources(SortByScore(passages), max_sources, <<>>, {})

\* s.dict(): the fields of a SourceDocument as a mapping.
SourceDict(s) == [k \in DOMAIN s \ {"cls"} |-> s[k]]
\* Mutant of SourceDicts: the mappings are listed last source first.
SourceDictsReversed(sources) ==
    [i \in 1..Len(sources) |-> SourceDict(sources[Len(sources) + 1 - i])]
SourceDicts(sources) == [i \in 1..Len(sources) |-> SourceDict(sources[i])]

\* suggestions[:3] of the fixed pool.
SuggestionPool ==
    <<"What is the architectural style of this landmark?",
      "When was this landmark designated?",
      "Who was the architect of this landmark?",
      "What are some similar landmarks in New York City?",
      "What is the historical significance of this landmark?">>
SuggestedCount == 3
\* Mutant of _generate_suggested_queries: the pool is returned uncut.
_generate_suggested_queries_all(original_query, report_text) == SuggestionPool
_generate_suggested_queries(original_query, report_text) ==
    SubSeq(SuggestionPool, 1, SuggestedCount)

(* ------------------ report pipeline: the external calls ----------------- *)
\* Each wrapper yields [raised, value]: whether an exception leaves it, and
\* what it returns otherwise.

\* A raw hit of the vector store becomes a SourcePassage; a hit that fails
\* validation is skipped.
SourcePassage(item) ==
    [text |-> item.text, source_id |-> item.id, source_title |-> item.title,
     page_number |-> item.page, relevance_score |-> item.score,
     landmark_id |-> item.landmark_id, metadata |-> <<>>]
RECURSIVE ConvertHits(_)
ConvertHits(items) ==
    IF items = <<>> THEN <<>>
    ELSE (IF Head(items).valid THEN <<SourcePassage(Head(items))>> ELSE <<>>)
         \o ConvertHits(Tail(items))

_search_vectors(outcome) ==
    [raised |-> FALSE,
     value |-> IF outcome.ok THEN ConvertHits(outcome.results) ELSE <<>>]

\* The metadata backend answers "found", "none" (no such landmark) or "error"
\* (the request failed on every attempt).
NameOf(lid) == IF lid = LP1 THEN "Flatiron Building" ELSE "Landmark"
get_landmark_details(landmark_id, outcome) ==
    [raised |-> FALSE,
     value |-> IF outcome = "found"
               THEN Some([lpc_id |-> landmark_id, name |-> NameOf(landmark_id)])
               ELSE None]

\* stop_after_attempt(3) on get_landmark_by_id.
MetadataAttempts == 3

\* What the metadata backend answers to GET /api/LPCReport/{lpc_id}: the
\* landmark ("found"), 200 with an empty payload ("empty"), a payload that
\* does not validate ("invalid"), a 404 status ("not_found"), or nothing at
\* all because the connection failed ("unreachable").
MetadataReplies == {"found", "empty", "invalid", "not_found", "unreachable"}

\* The body of get_landmark_by_id on one reply.  raise_for_status() turns a
\* 404 into requests.HTTPError, a RequestException like the connection
\* error; both are logged and raised again.
get_landmark_by_id_once(lpc_id, reply) ==
    IF reply = "found"
    THEN [exc |-> "none", value |-> Some([lpc_id |-> lpc_id, name |-> NameOf(lpc_id)])]
    ELSE IF reply \in {"empty", "invalid"}
         THEN [exc |-> "none", value |-> None]
         ELSE [exc |-> "RequestException", value |-> None]

\* get_landmark_by_id under its retry decorator (RequestException is
\* retried, reraise=True); replies[i] is what the backend answers to the
\* i-th attempt.
RECURSIVE get_landmark_by_id_from(_, _, _)
get_landmark_by_id_from(lpc_id, replies, attempt) ==
    LET res == get_landmark_by_id_once(lpc_id, replies[attempt])
    IN IF res.exc = "RequestException" /\ attempt < MetadataAttempts
       THEN get_landmark_by_id_from(lpc_id, replies, attempt + 1)
       ELSE [exc |-> res.exc, value |-> res.value, attempts |-> attempt]
get_landmark_by_id(lpc_id, replies) == get_landmark_by_id_from(lpc_id, replies, 1)

LandmarkImage(photo) == [url |-> photo.url, caption |-> photo.description]
RECURSIVE ConvertPhotos(_)
ConvertPhotos(photos) ==
    IF photos = <<>> THEN <<>>
    ELSE (IF Head(photos).valid THEN <<LandmarkImage(Head(photos))>> ELSE <<>>)
         \o ConvertPhotos(Tail(photos))
\* Mutant of _get_landmark_images: a failed photo fetch is not caught.
_get_landmark_images_propagates(outcome) ==
    [raised |-> ~outcome.ok,
     value |-> IF outcome.ok THEN ConvertPhotos(outcome.photos) ELSE <<>>]
_get_landmark_images(outcome) ==
    [raised |-> FALSE,
     value |-> IF outcome.ok THEN ConvertPhotos(outcome.photos) ELSE <<>>]

\* stop_after_attempt(3) on generate_text and on generate_research_report.
MaxAttempts == 3

\* How a call of the backend can fail: with an openai.APIConnectionError,
\* RateLimitError or server-side APIError ("api_error": the call may succeed
\* when repeated), with an APIError that tells the request itself is refused,
\* such as AuthenticationError or BadRequestError ("api_rejected"), or with
\* anything else ("error").  All the classes of the first two kinds derive
\* from openai.APIError.
IsAPIError(kind) == kind \in {"api_error", "api_rejected"}

\* One attempt of generate_text under its retry decorator, the attempt-th of
\* this call.  The backend answers [kind |-> "text", text |-> t] or fails:
\* an openai.APIError is re-raised as it is and retried, anything else is
\* wrapped in a ValueError and not retried.
\* status: "return", "retry" (sleep, then another attempt) or "raise";
\* exc: what the attempt raised.
generate_text(attempt, outcome) ==
    IF outcome.kind = "text"
    THEN [status |-> "return", value |-> outcome.text, exc |-> "none"]
    ELSE IF IsAPIError(outcome.kind)
         THEN [status |-> IF attempt < MaxAttempts THEN "retry" ELSE "raise",
               value |-> EmptyStr, exc |-> "APIError"]
         ELSE [status |-> "raise", value |-> EmptyStr, exc |-> "ValueError"]

\* Mutant of generate_research_report: the exception of generate_text is not
\* caught.
generate_research_reportRaises(attempt, outcome) == generate_text(attempt, outcome)
\* generate_research_report: generate_text inside try/except Exception that
\* returns "", so its own retry decorator never sees an exception.
generate_research_report(attempt, outcome) ==
    LET inner == generate_text(attempt, outcome)
    IN IF inner.status = "raise"
       THEN [status |-> "return", value |-> EmptyStr, exc |-> "none"]
       ELSE inner

\* Mutant of prompt_template: the research template whatever the history.
prompt_templateResearchOnly(conversation_history) == "landmark_research"
\* _generate_research_text, "Choose the appropriate prompt template": the name
\* of the PromptTemplate picked.
prompt_template(conversation_history) ==
    IF conversation_history # <<>> THEN "conversation_continuation" ELSE "landmark_research"

\* _generate_research_text: the continuation template and generate_text when
\* there is history, else the research template and generate_research_report.
_generate_research_text(conversation_history, attempt, outcome) ==
    IF conversation_history # <<>>
    THEN generate_text(attempt, outcome)
    ELSE generate_research_report(attempt, outcome)

(* --------------------- generate_report: one request --------------------- *)
\* A request runs on the event loop: it is suspended only while a worker
\* thread makes a vector-store or metadata call (asyncio.to_thread) and while
\* the retry of generate_text sleeps.  Between two suspensions its code runs
\* as one step.  The generative backend is called on the event loop itself,
\* so no other coroutine runs while that call is in progress.

\* The element of a one-element set.  {F(v) : v \in {l}} is F(l) with l
\* worked out once, however often F reads it.
Only(S) == CHOOSE y \in S : TRUE

\* What the request did, in order: calls issued, calls returned (ok: with a
\* result rather than a failure or nothing), response parts determined.
\* arg: the landmark id a related-landmark or photo call is about; the
\* template of a call of the generative backend; how an attempt at
\* the generative backend ended.
EvOn(kind, what, ok, arg) == [kind |-> kind, what |-> what, ok |-> ok, arg |-> arg]
Ev(kind, what, ok) == EvOn(kind, what, ok, None)

\* The locals of generate_report once _initialize_conversation has returned,
\* at the call of the vector store.
Locals(query, conversation_id, landmark_id, max_sources, include_images, conversation_history) ==
    [pc |-> "search", query |-> query, conversation_id |-> conversation_id,
     landmark_id |-> landmark_id, max_sources |-> max_sources,
     include_images |-> include_images, conversation_history |-> conversation_history,
     relevant_passages |-> <<>>, landmark_info |-> None, attempt |-> 0, gen |-> "pending",
     generated_text |-> EmptyStr, landmark_ids |-> <<>>, landmark_names |-> <<>>,
     images |-> <<>>, sources |-> <<>>, primary_landmark_name |-> None,
     related_landmarks |-> <<>>, todo |-> <<>>, suggested_queries |-> <<>>,
     response |-> None,
     events |-> <<Ev("call", "generate_report", TRUE), Ev("set", "conversation", TRUE),
                  Ev("call", "search", TRUE)>>]

\* Mutant of Raise: the error is swallowed and the response saved.
RaiseAndSave(l) == [l EXCEPT !.pc = "save"]
\* except Exception in generate_report: the request ends in a ValueError.
Raise(l) == [l EXCEPT !.pc = "failed"]

\* Mutant of ResearchResponse: the landmark's name is left out.
ResearchResponseUnnamed(l) ==
    [conversation_id |-> l.conversation_id, query |-> l.query, report |-> l.generated_text,
     images |-> l.images, sources |-> l.sources, landmark_id |-> l.landmark_id,
     landmark_name |-> None, related_landmarks |-> l.related_landmarks,
     suggested_queries |-> l.suggested_queries]
ResearchResponse(l) ==
    [conversation_id |-> l.conversation_id, query |-> l.query, report |-> l.generated_text,
     images |-> l.images, sources |-> l.sources, landmark_id |-> l.landmark_id,
     landmark_name |-> l.primary_landmark_name, related_landmarks |-> l.related_landmarks,
     suggested_queries |-> l.suggested_queries]

\* landmark_ids[:5]
RelatedLimit == 5
\* Mutant of Take: the slice is the whole list.
TakeAll(seq, n) == seq
Take(seq, n) == SubSeq(seq, 1, IF Len(seq) < n THEN Len(seq) ELSE n)
RECURSIVE Without(_, _)
Without(ids, landmark_id) ==
    IF ids = <<>> THEN <<>>
    ELSE (IF landmark_id # None /\ Head(ids) = landmark_id[1] THEN <<>> ELSE <<Head(ids)>>)
         \o Without(Tail(ids), landmark_id)

\* The loop of _get_related_landmarks before its next detail call; after the
\* loop, _generate_suggested_queries and then _create_and_save_response.
NextRelated(l) ==
    IF l.todo # <<>>
    THEN [l EXCEPT !.pc = "related",
                   !.events = Append(@, EvOn("call", "related_detail", TRUE, Some(Head(l.todo))))]
    ELSE [l EXCEPT !.pc = "save",
                   !.suggested_queries = _generate_suggested_queries(l.query, l.generated_text),
                   !.events = @ \o <<Ev("set", "related_landmarks", TRUE),
                                     Ev("set", "suggested_queries", TRUE)>>]

RelatedDetailReturned(l, outcome) ==
    LET lid == Head(l.todo)
        ld == get_landmark_details(lid, outcome)
        l1 == [l EXCEPT !.todo = Tail(@),
                        !.events = Append(@, EvOn("ret", "related_detail", ld.value # None,
                                                  Some(lid)))]
    IN IF ld.raised THEN Raise(l1)
       ELSE IF ld.value # None
            THEN NextRelated([l1 EXCEPT !.related_landmarks =
                                  Append(@, [id |-> lid, name |-> ld.value[1].name])])
            ELSE NextRelated(l1)

\* generate_report from the primary landmark name on.
AfterName(l, primary_landmark_name) ==
    Only({NextRelated([v EXCEPT !.primary_landmark_name = primary_landmark_name,
                                !.todo = Without(Take(v.landmark_ids, RelatedLimit),
                                                 v.landmark_id),
                                !.events = Append(@, Ev("set", "landmark_name", TRUE))]) :
          v \in {l}})

NameDetailReturned(l, outcome) ==
    LET ld == get_landmark_details(l.landmark_id[1], outcome)
        l1 == [l EXCEPT !.events = Append(@, Ev("ret", "name_detail", ld.value # None))]
    IN IF ld.raised THEN Raise(l1)
       ELSE AfterName(l1, IF ld.value # None THEN Some(ld.value[1].name) ELSE None)

\* generate_report from _get_primary_landmark_name on.
AfterSources(l) ==
    IF Truthy(l.landmark_id)
    THEN [l EXCEPT !.pc = "name_detail",
                   !.events = Append(@, Ev("call", "name_detail", TRUE))]
    ELSE AfterName(l, None)

\* Mutant of AfterImages: the response is saved before the landmark name,
\* the related landmarks and the suggestions are worked out.
AfterImagesSaves(l, images) ==
    [l EXCEPT !.pc = "save", !.images = images,
              !.sources = _prepare_sources(l.relevant_passages, l.max_sources),
              !.events = @ \o <<Ev("set", "images", TRUE), Ev("set", "sources", TRUE)>>]
\* generate_report from _prepare_sources on.
AfterImages(l, images) ==
    Only({AfterSources(l1) :
          l1 \in {[v EXCEPT !.images = images,
                            !.sources = _prepare_sources(v.relevant_passages, v.max_sources),
                            !.events = @ \o <<Ev("set", "images", TRUE),
                                              Ev("set", "sources", TRUE)>>] :
                  v \in {l}}})

PhotosReturned(l, outcome) ==
    LET res == _get_landmark_images(outcome)
        l1 == [l EXCEPT !.events = Append(@, Ev("ret", "photos", outcome.ok))]
    IN IF res.raised THEN Raise(l1) ELSE AfterImages(l1, res.value)

\* primary_landmark_id = landmark_id or landmark_ids[0]
primary_landmark_id(landmark_id, landmark_ids) ==
    IF Truthy(landmark_id) THEN landmark_id[1] ELSE landmark_ids[1]

\* Mutant of AfterProcess: the test of include_images is missing.
AfterProcessAnyway(l) ==
    LET l1 == [l EXCEPT !.events = Append(@, Ev("set", "landmarks", TRUE))]
    IN IF l.landmark_ids # <<>>
       THEN [l1 EXCEPT !.pc = "photos",
                       !.events = Append(@, EvOn("call", "photos", TRUE,
                                     Some(primary_landmark_id(l.landmark_id, l.landmark_ids))))]
       ELSE AfterImages(l1, <<>>)
\* generate_report from "if include_images and landmark_ids" on.
AfterProcess(l) ==
    LET l1 == [l EXCEPT !.events = Append(@, Ev("set", "landmarks", TRUE))]
    IN IF l.include_images /\ l.landmark_ids # <<>>
       THEN [l1 EXCEPT !.pc = "photos",
                       !.events = Append(@, EvOn("call", "photos", TRUE,
                                     Some(primary_landmark_id(l.landmark_id, l.landmark_ids))))]
       ELSE AfterImages(l1, <<>>)

\* _process_landmarks after its detail call returned.
FocusDetailReturned(l, outcome) ==
    LET ld == get_landmark_details(l.landmark_id[1], outcome)
        l1 == [l EXCEPT !.events = Append(@, Ev("ret", "focus_detail", ld.value # None))]
    IN IF ld.raised THEN Raise(l1)
       ELSE IF ld.value # None /\ ~InSeq(ld.value[1].name, l.landmark_names)
            THEN AfterProcess([l1 EXCEPT !.landmark_names = Append(@, ld.value[1].name)])
            ELSE AfterProcess(l1)

\* Mutant of AfterText: the requested id is put in front of the extracted ids.
AfterTextFocusFirst(l, generated_text) ==
    LET found == _extract_landmarks_from_text(generated_text)
        l1 == [l EXCEPT !.generated_text = generated_text,
                        !.landmark_names = found.landmark_names,
                        !.landmark_ids = found.landmark_ids,
                        !.events = Append(@, Ev("set", "report", TRUE))]
    IN IF Truthy(l.landmark_id) /\ ~InSeq(l.landmark_id[1], l1.landmark_ids)
       THEN [l1 EXCEPT !.pc = "focus_detail",
                       !.landmark_ids = <<l.landmark_id[1]>> \o @,
                       !.events = Append(@, Ev("call", "focus_detail", TRUE))]
       ELSE AfterProcess(l1)
\* generate_report from _extract_landmarks_from_text on.
AfterText(l, generated_text) ==
    LET found == _extract_landmarks_from_text(generated_text)
        l1 == [l EXCEPT !.generated_text = generated_text,
                        !.landmark_names = found.landmark_names,
                        !.landmark_ids = found.landmark_ids,
                        !.events = Append(@, Ev("set", "report", TRUE))]
    IN IF Truthy(l.landmark_id) /\ ~InSeq(l.landmark_id[1], l1.landmark_ids)
       THEN [l1 EXCEPT !.pc = "focus_detail",
                       !.landmark_ids = Append(@, l.landmark_id[1]),
                       !.events = Append(@, Ev("call", "focus_detail", TRUE))]
       ELSE AfterProcess(l1)

\* One attempt at the backend has ended.
GenerateReturned(l, outcome) ==
    LET res == _generate_research_text(l.conversation_history, l.attempt, outcome)
        l1 == [l EXCEPT !.events =
                  Append(@, EvOn("ret", "generate", outcome.kind = "text",
                                 Some([kind |-> outcome.kind,
                                       exc |-> generate_text(l.attempt, outcome).exc])))]
    IN IF res.status = "retry" THEN [l1 EXCEPT !.pc = "backoff"]
       ELSE IF res.status = "raise" THEN Raise([l1 EXCEPT !.gen = "failed"])
       ELSE AfterText([l1 EXCEPT !.gen = IF outcome.kind = "text" THEN "ok" ELSE "failed"],
                      res.value)

\* The context is assembled: _generate_research_text calls the backend.
CallGenerate(l) ==
    [l EXCEPT !.pc = "generate", !.attempt = @ + 1,
              !.events = Append(@, EvOn("call", "generate", TRUE,
                                        Some(prompt_template(l.conversation_history))))]

ContextDetailReturned(l, outcome) ==
    LET ld == get_landmark_details(l.landmark_id[1], outcome)
        l1 == [l EXCEPT !.events = Append(@, Ev("ret", "ctx_detail", ld.value # None))]
    IN IF ld.raised THEN Raise(l1)
       ELSE CallGenerate([l1 EXCEPT !.landmark_info = ld.value,
                                    !.events = Append(@, Ev("set", "context", TRUE))])

\* _build_research_context after the vector search returned.
SearchReturned(l, outcome) ==
    LET res == _search_vectors(outcome)
        l1 == [l EXCEPT !.relevant_passages = res.value,
                        !.events = Append(@, Ev("ret", "search", outcome.ok))]
    IN IF res.raised THEN Raise(l1)
       ELSE IF Truthy(l.landmark_id)
            THEN [l1 EXCEPT !.pc = "ctx_detail",
                            !.events = Append(@, Ev("call", "ctx_detail", TRUE))]
            ELSE CallGenerate([l1 EXCEPT !.events = Append(@, Ev("set", "context", TRUE))])

InFlight == Cardinality({r \in Reqs : req[r].pc \notin {"idle", "done", "failed"}})
\* No other request is inside a call of the generative backend.
LoopFree(r) == \A r2 \in Reqs \ {r} : req[r2].pc # "generate"

\* The request r goes on to l; when l has reached _create_and_save_response,
\* the response is built and the entry saved in the same step.
Continue(r, locals) ==
    \E l \in {locals} :
        /\ IF l.pc = "save"
           THEN /\ req' = [req EXCEPT ![r] =
                             [l EXCEPT !.pc = "done", !.response = Some(ResearchResponse(l)),
                                       !.events = @ \o <<Ev("set", "response", TRUE),
                                                         Ev("call", "add_entry", TRUE)>>]]
                /\ IF memory_enabled
                   THEN /\ conversations' =
                              add_entry(conversations, l.conversation_id, l.query,
                                        l.generated_text, l.landmark_ids, l.landmark_names,
                                        SourceDicts(l.sources), now, ttl_seconds)
                        /\ calls' = [CallsKept(conversations,
                                               _cleanup_expired(conversations, TRUE, now, ttl_seconds))
                                       EXCEPT ![l.conversation_id] =
                                         Append(@, [query |-> l.query, response |-> l.generated_text])]
                   ELSE UNCHANGED <<conversations, calls>>
           ELSE /\ req' = [req EXCEPT ![r] = l]
                /\ UNCHANGED <<conversations, calls>>
        /\ ret' = NoRet
        /\ UNCHANGED <<inbound, pure, memory_enabled, ttl_seconds, now, issued>>

\* generate_report is called on a service whose store holds convs:
\* _initialize_conversation, then the vector search is handed to a worker
\* thread.  u is the uuid4 drawn if no conversation id is given.
StartOn(convs, r, query, conversation_id, landmark_id, max_sources, include_images, u) ==
    /\ req[r].pc = "idle"
    /\ LoopFree(r)
    /\ TotalEntries(convs) + InFlight < MaxEntries
    /\ IF conversation_id = None \/ conversation_id[1] = ""
       THEN /\ u \notin issued
            /\ issued' = issued \cup {u}
            /\ conversations' = IF memory_enabled
                                THEN [id \in DOMAIN convs \cup {u} |->
                                        IF id = u THEN Conversation(u, now) ELSE convs[id]]
                                ELSE convs
            /\ calls' = CallsKept(convs, convs)
            /\ req' = [req EXCEPT ![r] =
                         Locals(query, u, landmark_id, max_sources, include_images, <<>>)]
       ELSE /\ conversations' = _cleanup_expired(convs, memory_enabled, now, ttl_seconds)
            /\ calls' = CallsKept(convs, conversations')
            /\ issued' = issued
            /\ req' = [req EXCEPT ![r] =
                         Locals(query, conversation_id[1], landmark_id, max_sources,
                                include_images,
                                get_conversation_history(convs, memory_enabled,
                                                         conversation_id[1], now, ttl_seconds))]
    /\ ret' = NoRet
    /\ UNCHANGED <<pure, memory_enabled, ttl_seconds, now>>

\* generate_report is called on the service that owns the store.
Start(r, query, conversation_id, landmark_id, max_sources, include_images, u) ==
    /\ StartOn(conversations, r, query, conversation_id, landmark_id, max_sources,
               include_images, u)
    /\ UNCHANGED inbound

SearchReturn(r, outcome) ==
    /\ req[r].pc = "search"
    /\ LoopFree(r)
    /\ Continue(r, SearchReturned(req[r], outcome))

ContextDetailReturn(r, outcome) ==
    /\ req[r].pc = "ctx_detail"
    /\ LoopFree(r)
    /\ Continue(r, ContextDetailReturned(req[r], outcome))

GenerateReturn(r, outcome) ==
    /\ req[r].pc = "generate"
    /\ Continue(r, GenerateReturned(req[r], outcome))

\* The sleep between two attempts is over: the next attempt starts.
Backoff(r) ==
    /\ req[r].pc = "backoff"
    /\ LoopFree(r)
    /\ Continue(r, CallGenerate(req[r]))

FocusDetailReturn(r, outcome) ==
    /\ req[r].pc = "focus_detail"
    /\ LoopFree(r)
    /\ Continue(r, FocusDetailReturned(req[r], outcome))

PhotosReturn(r, outcome) ==
    /\ req[r].pc = "photos"
    /\ LoopFree(r)
    /\ Continue(r, PhotosReturned(req[r], outcome))

NameDetailReturn(r, outcome) ==
    /\ req[r].pc = "name_detail"
    /\ LoopFree(r)
    /\ Continue(r, NameDetailReturned(req[r], outcome))

RelatedDetailReturn(r, outcome) ==
    /\ req[r].pc = "related"
    /\ LoopFree(r)
    /\ Continue(r, RelatedDetailReturned(req[r], outcome))

(* ---------------------- what the backends can answer -------------------- *)

Hit(id, score, valid) ==
    [id |-> id, text |-> "t", title |-> None, page |-> None, score |-> score,
     landmark_id |-> None, valid |-> valid]
\* Scores in hundredths.
SearchOutcomes ==
    {[ok |-> FALSE, results |-> <<>>],
     [ok |-> TRUE, results |-> <<>>],
     [ok |-> TRUE, results |-> <<Hit("s1", 70, TRUE), Hit("s2", 90, TRUE),
                                 Hit("s3", 95, FALSE), Hit("s1", 80, TRUE)>>]}
DetailOutcomes == {"found", "none", "error"}
Photo(url, valid) == [url |-> url, description |-> None, valid |-> valid]
PhotoOutcomes ==
    {[ok |-> FALSE, photos |-> <<>>],
     [ok |-> TRUE, photos |-> <<Photo("http://p1", TRUE), Photo("", FALSE)>>]}
Text2 == LP2 \o <<",">> \o LP1 \o <<",">> \o LP2
Texts == {EmptyStr, Text2}
GenerateOutcomes ==
    {[kind |-> "text", text |-> t] : t \in Texts}
      \cup {[kind |-> "api_error", text |-> EmptyStr], [kind |-> "error", text |-> EmptyStr]}

\* What a caller passes to generate_report.
RequestInput(conversation_id, landmark_id, max_sources, include_images) ==
    [query |-> "q", conversation_id |-> conversation_id, landmark_id |-> landmark_id,
     max_sources |-> max_sources, include_images |-> include_images]
RequestInputs ==
    {RequestInput(None, None, 5, FALSE)}
      \cup {RequestInput(Some(id), Some(LP1), 1, TRUE) : id \in ConvIds}
      \cup {RequestInput(Some(id), None, 5, TRUE) : id \in ClientIds}

RequestStep(r) ==
    \/ \E in \in RequestInputs, u \in UuidPool :
          /\ in.conversation_id # None => in.conversation_id[1] \in KnownIds
          /\ Start(r, in.query, in.conversation_id, in.landmark_id, in.max_sources,
                   in.include_images, u)
    \/ \E outcome \in SearchOutcomes : SearchReturn(r, outcome)
    \/ \E outcome \in DetailOutcomes : ContextDetailReturn(r, outcome)
    \/ \E outcome \in GenerateOutcomes : GenerateReturn(r, outcome)
    \/ Backoff(r)
    \/ \E outcome \in DetailOutcomes : FocusDetailReturn(r, outcome)
    \/ \E outcome \in PhotoOutcomes : PhotosReturn(r, outcome)
    \/ \E outcome \in DetailOutcomes : NameDetailReturn(r, outcome)
    \/ \E outcome \in DetailOutcomes : RelatedDetailReturn(r, outcome)

\* One service, one request at a time, and a client that also writes to the
\* store directly.
Next ==
    \/ RequestStep("r1")
    \/ \E id \in ClientIds : AddEntry(id, "q1", Resp1, <<>>)
    \/ Tick
Spec == InitStore /\ [][Next]_vars

(* ------------------- a request whose calls all come back ---------------- *)
\* Every external call and every backoff sleep of a running request ends.
ExternalCallEnds(r) == req[r].pc # "idle" /\ RequestStep(r)
\* Once a request is started its course depends on what its calls answer and
\* on the history it was given, not on the clock, which stands still here.
NextLive ==
    \/ RequestStep("r1")
    \/ \E id \in ClientIds : AddEntry(id, "q1", Resp1, <<>>)
SpecLive == InitStore /\ [][NextLive]_vars /\ WF_vars(ExternalCallEnds("r1"))

(* --------------------- requests that run concurrently ------------------- *)

\* Two callers of one service: each asks its own question, in any
\* conversation, without a landmark and without images.
QueryOf(r) == IF r = "r1" THEN "qa" ELSE "qb"
ConcInputs(r) ==
    {[query |-> QueryOf(r), conversation_id |-> c, landmark_id |-> None,
      max_sources |-> 5, include_images |-> FALSE] : c \in {None} \cup {Some(id) : id \in ConvIds}}
ConcSearchOutcomes == {o \in SearchOutcomes : ~o.ok}
ConcGenerateOutcomes == {[kind |-> "text", text |-> Resp1], [kind |-> "error", text |-> EmptyStr]}

ConcStep(r) ==
    \/ \E in \in ConcInputs(r), u \in UuidPool :
          /\ in.conversation_id # None => in.conversation_id[1] \in KnownIds
          /\ Start(r, in.query, in.conversation_id, in.landmark_id, in.max_sources,
                   in.include_images, u)
    \/ \E outcome \in ConcSearchOutcomes : SearchReturn(r, outcome)
    \/ \E outcome \in ConcGenerateOutcomes : GenerateReturn(r, outcome)

\* The event loop runs a client's store call only when no request holds it.
LoopIdle == \A r \in Reqs : req[r].pc # "generate"

NextConc ==
    \/ \E r \in Reqs : ConcStep(r)
    \/ LoopIdle /\ \E id \in KnownIds : AddEntry(id, "q1", Resp1, <<>>)
    \/ LoopIdle /\ \E id \in KnownIds : DeleteConversation(id)
    \/ Tick
SpecConc == InitStore /\ [][NextConc]_vars

\* Two requests on one service and nothing else: no client calls the store
\* directly and no conversation expires.
NextRequests == \E r \in Reqs : ConcStep(r)
SpecRequests == InitStore /\ [][NextRequests]_vars

\* Two requests on one service and a client that deletes conversations; no
\* conversation expires.
NextDeletes ==
    \/ \E r \in Reqs : ConcStep(r)
    \/ LoopIdle /\ \E id \in KnownIds : DeleteConversation(id)
SpecDeletes == InitStore /\ [][NextDeletes]_vars

(* ------------------- the calls of the generative backend ---------------- *)
\* A request without landmark and images, first turn or continuation, and a
\* backend that fails in each of the ways it can.
BackendInputs ==
    {RequestInput(None, None, 5, FALSE)}
      \cup {RequestInput(Some(id), None, 5, FALSE) : id \in ClientIds}
BackendOutcomes ==
    {[kind |-> "text", text |-> Resp1]}
      \cup {[kind |-> k, text |-> EmptyStr] : k \in {"api_error", "api_rejected", "error"}}
NextBackend ==
    \/ \E in \in BackendInputs, u \in UuidPool :
          Start("r1", in.query, in.conversation_id, in.landmark_id, in.max_sources,
                in.include_images, u)
    \/ \E outcome \in ConcSearchOutcomes : SearchReturn("r1", outcome)
    \/ \E outcome \in BackendOutcomes : GenerateReturn("r1", outcome)
    \/ Backoff("r1")
    \/ \E id \in ClientIds : AddEntry(id, "q1", Resp1, <<>>)
    \/ Tick
SpecBackend == InitStore /\ [][NextBackend]_vars

(* ------------------- landmarks, images and related names ---------------- *)
\* One first-turn request on a store that nobody else uses, a backend whose
\* text names no landmark, the requested one only, two, or seven of them,
\* and a metadata gateway that knows a landmark or does not.
LPn(d) == <<"L", "P", "-", "0", "0", "0", "0", d>>
TextFocus == <<"S", "e", "e", " ">> \o LP1 \o <<".">>
TextMany ==
    LPn("2") \o LPn("3") \o LP1 \o LPn("4") \o LPn("2") \o LPn("5") \o LPn("6") \o LPn("7")
TextOthers == LPn("2") \o <<" ">> \o LPn("3")
LandmarkTexts == {EmptyStr, TextFocus, TextOthers, Text2, TextMany}
LandmarkInputs ==
    {RequestInput(None, landmark_id, max_sources, include_images) :
        landmark_id \in {None, Some(LP1)}, max_sources \in {1, 5},
        include_images \in BOOLEAN}
LandmarkSearchOutcomes == {o \in SearchOutcomes : ~o.ok \/ o.results # <<>>}
LandmarkDetailOutcomes == {"found", "none"}
NextLandmarks ==
    \/ \E in \in LandmarkInputs, u \in UuidPool :
          Start("r1", in.query, in.conversation_id, in.landmark_id, in.max_sources,
                in.include_images, u)
    \/ \E outcome \in LandmarkSearchOutcomes : SearchReturn("r1", outcome)
    \/ \E outcome \in LandmarkDetailOutcomes : ContextDetailReturn("r1", outcome)
    \/ \E text \in LandmarkTexts : GenerateReturn("r1", [kind |-> "text", text |-> text])
    \/ \E outcome \in LandmarkDetailOutcomes : FocusDetailReturn("r1", outcome)
    \/ \E outcome \in PhotoOutcomes : PhotosReturn("r1", outcome)
    \/ \E outcome \in LandmarkDetailOutcomes : NameDetailReturn("r1", outcome)
    \/ \E outcome \in LandmarkDetailOutcomes : RelatedDetailReturn("r1", outcome)
SpecLandmarks == InitStore /\ [][NextLandmarks]_vars

\* min_score=0.6 in the retriever's call of VectorStoreClient.query, in
\* hundredths; query puts it into the payload it posts and returns
\* response.json() as it comes.
MinScore == 60
\* The backend answers with hits of any score.
RetrieverOutcomes ==
    SearchOutcomes
      \cup {[ok |-> TRUE, results |-> <<Hit("s1", 50, TRUE), Hit("s2", 90, TRUE)>>],
            [ok |-> TRUE, results |-> <<Hit("s3", MinScore, TRUE), Hit("s3", 59, TRUE)>>]}
RetrieverInputs ==
    {RequestInput(None, None, max_sources, FALSE) : max_sources \in {1, 5}}
NextRetriever ==
    \/ \E in \in RetrieverInputs, u \in UuidPool :
          Start("r1", in.query, in.conversation_id, in.landmark_id, in.max_sources,
                in.include_images, u)
    \/ \E outcome \in RetrieverOutcomes : SearchReturn("r1", outcome)
    \/ \E outcome \in GenerateOutcomes : GenerateReturn("r1", outcome)
    \/ \E outcome \in LandmarkDetailOutcomes : RelatedDetailReturn("r1", outcome)
SpecRetriever == InitStore /\ [][NextRetriever]_vars

(* ----------------------------- the HTTP endpoints ----------------------- *)
\* Depends(get_research_service) builds the service anew for every request:
\* a ResearchService around a MemoryService() whose conversations are empty.
\* Requests arrive one after the other here, r1 first, so the one store
\* variable holds the store of the request that is being served.

get_research_service == <<>>

\* api_models.ResearchRequest: include_images defaults to True, max_sources to
\* 5 and is validated to lie in 1..20.
ResearchRequest(query, conversation_id, landmark_id, include_images, max_sources) ==
    [query |-> query, conversation_id |-> conversation_id, landmark_id |-> landmark_id,
     include_images |-> include_images, max_sources |-> max_sources]

\* What a client posts to /generate; the endpoint hands on query,
\* conversation_id and landmark_id only.
ApiInputs(r) ==
    {ResearchRequest(QueryOf(r), c, None, TRUE, 5) :
        c \in {None} \cup {Some(id) : id \in ConvIds}}

\* POST /generate up to the first suspension of generate_report, which runs
\* with its defaults max_sources=5 and include_images=True.
generate_research(r, request, u) ==
    /\ r = "r1" => req["r2"].pc = "idle"
    /\ r = "r2" => req["r1"].pc \in {"done", "failed"}
    /\ StartOn(get_research_service, r, request.query, request.conversation_id,
               request.landmark_id, 5, TRUE, u)
    /\ inbound' = [inbound EXCEPT ![r] = Some(request)]

NextApi ==
    \/ \E r \in Reqs, u \in UuidPool : \E request \in ApiInputs(r) :
          /\ request.conversation_id # None => request.conversation_id[1] \in KnownIds
          /\ generate_research(r, request, u)
    \/ \E r \in Reqs : \E outcome \in ConcSearchOutcomes : SearchReturn(r, outcome)
    \/ \E r \in Reqs : \E outcome \in ConcGenerateOutcomes : GenerateReturn(r, outcome)
    \/ Tick
SpecApi == InitStore /\ [][NextApi]_vars

\* One request to /generate with every field of ResearchRequest set by the
\* client, and backends that answer.
MostSources == 20
EndpointInputs ==
    {ResearchRequest("q", None, landmark_id, include_images, max_sources) :
        landmark_id \in {None, Some(LP1)}, include_images \in BOOLEAN,
        max_sources \in {1, 5, MostSources}}
NextEndpoint ==
    \/ \E u \in UuidPool : \E request \in EndpointInputs : generate_research("r1", request, u)
    \/ \E outcome \in SearchOutcomes : SearchReturn("r1", outcome)
    \/ \E outcome \in LandmarkDetailOutcomes : ContextDetailReturn("r1", outcome)
    \/ \E outcome \in GenerateOutcomes : GenerateReturn("r1", outcome)
    \/ \E outcome \in LandmarkDetailOutcomes : FocusDetailReturn("r1", outcome)
    \/ \E outcome \in PhotoOutcomes : PhotosReturn("r1", outcome)
    \/ \E outcome \in LandmarkDetailOutcomes : NameDetailReturn("r1", outcome)
    \/ \E outcome \in LandmarkDetailOutcomes : RelatedDetailReturn("r1", outcome)
SpecEndpoint == InitStore /\ [][NextEndpoint]_vars

(* ------------------ functions of the service on their own --------------- *)

\* The longest passage list tried.
MaxPassages == 3
SourceIds == {"s1", "s2", "s3"}
\* Scores in hundredths.
Scores == {50, 90}
\* The text of a passage tells its place in the list.
PosTexts == <<"p1", "p2", "p3", "p4", "p5">>
PassageAt(i, source_id, relevance_score) ==
    [text |-> PosTexts[i], source_id |-> source_id, source_title |-> None,
     page_number |-> None, relevance_score |-> relevance_score,
     landmark_id |-> None, metadata |-> <<>>]
PassageLists ==
    UNION {{[i \in 1..n |-> PassageAt(i, f[i][1], f[i][2])] :
               f \in [1..n -> SourceIds \X Scores]} : n \in 0..MaxPassages}
PrepareSourcesInputs ==
    {[f |-> "_prepare_sources", args |-> [passages |-> ps, max_sources |-> k], result |-> None] :
        ps \in PassageLists, k \in 0..MaxPassages}

ApplyPrepareSources ==
    /\ pure.f = "_prepare_sources"
    /\ pure.result = None
    /\ pure' = [pure EXCEPT !.result =
                  Some(_prepare_sources(pure.args.passages, pure.args.max_sources))]
    /\ UNCHANGED <<inbound, memory_enabled, ttl_seconds, now, conversations, issued, ret, calls, req>>

\* Texts are put together from at most MaxTokens pieces: whole ids, the start
\* of an id, a digit, and other characters.
MaxTokens == 3
Tokens == {LP1, LP2, <<"L", "P", "-", "0", "0", "0">>, <<"1">>, <<"L">>, <<" ">>}
RECURSIVE Concat(_)
Concat(pieces) == IF pieces = <<>> THEN <<>> ELSE Head(pieces) \o Concat(Tail(pieces))
TokenTexts == UNION {{Concat(f) : f \in [1..n -> Tokens]} : n \in 0..MaxTokens}
ExtractInputs ==
    {[f |-> "_extract_landmarks_from_text", args |-> [text |-> t], result |-> None,
      again |-> None] : t \in TokenTexts}

ApplyExtract ==
    /\ pure.f = "_extract_landmarks_from_text"
    /\ pure.result = None
    /\ pure' = [pure EXCEPT !.result = Some(_extract_landmarks_from_text(pure.args.text))]
    /\ UNCHANGED <<inbound, memory_enabled, ttl_seconds, now, conversations, issued, ret, calls, req>>

\* The same text is given to the function a second time.
ApplyExtractAgain ==
    /\ pure.f = "_extract_landmarks_from_text"
    /\ pure.result # None
    /\ pure.again = None
    /\ pure' = [pure EXCEPT !.again = Some(_extract_landmarks_from_text(pure.args.text))]
    /\ UNCHANGED <<inbound, memory_enabled, ttl_seconds, now, conversations, issued, ret, calls, req>>

Queries == {"", "q", "Who built it?"}
SuggestInputs ==
    {[f |-> "_generate_suggested_queries",
      args |-> [original_query |-> q, report_text |-> t], result |-> None] :
        q \in Queries, t \in TokenTexts}

ApplySuggest ==
    /\ pure.f = "_generate_suggested_queries"
    /\ pure.result = None
    /\ pure' = [pure EXCEPT !.result =
                  Some(_generate_suggested_queries(pure.args.original_query,
                                                   pure.args.report_text))]
    /\ UNCHANGED <<inbound, memory_enabled, ttl_seconds, now, conversations, issued, ret, calls, req>>

\* get_landmark_by_id on every course of replies of the backend.
GetLandmarkInputs ==
    {[f |-> "get_landmark_by_id", args |-> [lpc_id |-> LP1, replies |-> replies],
      result |-> None] :
        replies \in [1..MetadataAttempts -> MetadataReplies]}
ApplyGetLandmark ==
    /\ pure.f = "get_landmark_by_id"
    /\ pure.result = None
    /\ pure' = [pure EXCEPT !.result =
                  Some(get_landmark_by_id(pure.args.lpc_id, pure.args.replies))]
    /\ UNCHANGED <<inbound, memory_enabled, ttl_seconds, now, conversations, issued, ret, calls, req>>

\* isinstance(exc, cls) for the exceptions the endpoints meet: HTTPException
\* and ValueError are both subclasses of Exception, neither of the other.
IsInstance(exc, cls) == exc # "none" /\ (cls = "Exception" \/ cls = exc)

\* ResearchService.get_conversation_history: one ResearchResponse for each
\* pair of the history.
service_get_conversation_history(convs, enabled, conversation_id, t, ttl) ==
    LET history == get_conversation_history(convs, enabled, conversation_id, t, ttl)
    IN [i \in 1..Len(history) |->
           [conversation_id |-> conversation_id, query |-> history[i].query,
            report |-> history[i].response]]

\* GET /conversations/{conversation_id}: the status the client receives.  The
\* HTTPException(404) is raised inside the try block, whose handlers are
\* "except ValueError" (400) and then "except Exception" (500).
http_get_conversation_history(convs, enabled, conversation_id, t, ttl) ==
    LET history == service_get_conversation_history(convs, enabled, conversation_id, t, ttl)
        raised == IF history = <<>> THEN [exc |-> "HTTPException", status_code |-> 404]
                  ELSE [exc |-> "none", status_code |-> 200]
    IN IF IsInstance(raised.exc, "ValueError") THEN [status_code |-> 400]
       ELSE IF IsInstance(raised.exc, "Exception") THEN [status_code |-> 500]
       ELSE [status_code |-> raised.status_code]

\* DELETE /conversations/{conversation_id}: the status the client receives.
\* The HTTPException(404) is raised inside the try block, whose only handler
\* is "except Exception" (500).
http_delete_conversation(convs, enabled, conversation_id) ==
    LET success == delete_conversation_ret(convs, enabled, conversation_id)
        raised == IF ~success THEN [exc |-> "HTTPException", status_code |-> 404]
                  ELSE [exc |-> "none", status_code |-> 200]
    IN IF IsInstance(raised.exc, "Exception") THEN [status_code |-> 500]
       ELSE [status_code |-> raised.status_code]

\* The stores a handler's service is tried with: the empty one that
\* get_research_service builds, and one that holds a conversation.
StoresTried ==
    {<<>>, add_entry(<<>>, "c1", "q1", Resp1, <<>>, <<>>, <<>>, 0, 0)}
ConversationEndpoints == {"GET /conversations/{conversation_id}",
                          "DELETE /conversations/{conversation_id}"}
ConversationEndpointInputs ==
    {[f |-> f, args |-> [conversations |-> convs, conversation_id |-> id], result |-> None] :
        f \in ConversationEndpoints, convs \in StoresTried, id \in ConvIds}

ApplyConversationEndpoint ==
    /\ pure.f \in ConversationEndpoints
    /\ pure.result = None
    /\ pure' = [pure EXCEPT !.result =
                  Some(IF pure.f = "GET /conversations/{conversation_id}"
                       THEN http_get_conversation_history(pure.args.conversations, memory_enabled,
                                                          pure.args.conversation_id, now,
                                                          ttl_seconds)
                       ELSE http_delete_conversation(pure.args.conversations, memory_enabled,
                                                     pure.args.conversation_id))]
    /\ UNCHANGED <<inbound, memory_enabled, ttl_seconds, now, conversations, issued, ret, calls, req>>
PureInputs ==
    PrepareSourcesInputs \cup ExtractInputs \cup SuggestInputs \cup GetLandmarkInputs
      \cup ConversationEndpointInputs
InitPure ==
    /\ memory_enabled \in BOOLEAN
    /\ ttl_seconds = 0
    /\ now = 0
    /\ conversations = <<>>
    /\ issued = {}
    /\ ret = NoRet
    /\ calls = [id \in ConvIds |-> <<>>]
    /\ req = [r \in Reqs |-> NoReq]
    /\ pure \in PureInputs
    /\ inbound = NoInbound
NextPure ==
    \/ ApplyPrepareSources
    \/ ApplyExtract
    \/ ApplyExtractAgain
    \/ ApplySuggest
    \/ ApplyGetLandmark
    \/ ApplyConversationEndpoint
SpecPure == InitPure /\ [][NextPure]_vars

(* ======================= claims: the Memory Store ====================== *)

\* A step taken by one of the three operations that run the expiry sweep.
SweepingOp ==
    \/ \E id \in KnownIds, e \in EntryInputs : AddEntry(id, e.query, Resp1, e.landmark_ids)
    \/ \E id \in KnownIds : GetConversation(id)
    \/ \E id \in KnownIds : GetConversationHistory(id)

\* The conversation stored under id before the step is gone after it (the id
\* is free, or a conversation created later holds it).
Removed(id) == ~SameConversation(conversations, conversations', id)

C2_UnexpiredStays ==
    [][\A id \in DOMAIN conversations :
          (/\ memory_enabled
           /\ now - conversations[id].updated_at <= ttl_seconds
           /\ ~DeleteConversation(id))
              => ~Removed(id)]_vars

\* C2 witness: a sweeping operation has just returned and left in the store a
\* conversation whose age equals a non-zero ttl_seconds exactly.
C2_Witness ==
    /\ memory_enabled
    /\ ttl_seconds > 0
    /\ ret.op \in {"add_entry", "get_conversation", "get_conversation_history"}
    /\ \E id \in DOMAIN conversations : now - conversations[id].updated_at = ttl_seconds

\* C3: with memory disabled the mapping stays empty and every operation
\* returns its fixed answer: an id, true, none, the empty list, true.
C3_DisabledStore ==
    ~memory_enabled =>
        /\ DOMAIN conversations = {}
        /\ ret.op = "create_conversation" => ret.val \in UuidPool
        /\ ret.op = "add_entry" => ret.val = TRUE
        /\ ret.op = "get_conversation" => ret.val = None
        /\ ret.op = "get_conversation_history" => ret.val = <<>>
        /\ ret.op = "delete_conversation" => ret.val = TRUE

\* C3 witness: on a disabled store, delete_conversation has returned for the
\* id create_conversation handed out.
C3_Witness ==
    /\ ~memory_enabled
    /\ issued # {}
    /\ ret.op = "delete_conversation"

\* The focus the claim expects: the first id of the earliest entry whose
\* landmark_ids list is not empty, or none.
RECURSIVE FirstFocus(_)
FirstFocus(entries) ==
    IF entries = <<>> THEN None
    ELSE IF Head(entries).landmark_ids # <<>> THEN Some(Head(entries).landmark_ids[1])
    ELSE FirstFocus(Tail(entries))

\* C9 as stated: while a conversation lives, landmark_focus changes at most
\* once, from unset to the first id of the earliest entry that carries
\* landmark ids, and no later add_entry changes it.
C9_FocusSetOnce ==
    [][\A id \in DOMAIN conversations :
          SameConversation(conversations, conversations', id) =>
              /\ conversations[id].landmark_focus # None
                    => conversations'[id].landmark_focus = conversations[id].landmark_focus
              /\ conversations'[id].landmark_focus = FirstFocus(conversations'[id].entries)]_vars

IsPrefix(s, t) == Len(s) <= Len(t) /\ SubSeq(t, 1, Len(s)) = s

\* C10: a conversation that stays in the store across a step keeps its
\* entries as a prefix of the new ones and its updated_at does not go back;
\* add_entry on it puts exactly one element, the new entry, at the end.
C10_AppendOnly ==
    [][\A id \in DOMAIN conversations :
          SameConversation(conversations, conversations', id) =>
              /\ IsPrefix(conversations[id].entries, conversations'[id].entries)
              /\ conversations'[id].updated_at >= conversations[id].updated_at
              /\ \A e \in EntryInputs :
                    (memory_enabled /\ AddEntry(id, e.query, Resp1, e.landmark_ids)) =>
                        conversations'[id].entries =
                            Append(conversations[id].entries,
                                   MemoryEntry(id, e.query, Resp1, e.landmark_ids, <<>>, <<>>))]_vars

\* C10 witness: add_entry has returned on a conversation that already held an
\* entry appended at an earlier time.
C10_Witness ==
    /\ memory_enabled
    /\ ret.op = "add_entry"
    /\ \E id \in DOMAIN conversations :
          /\ Len(conversations[id].entries) = 2
          /\ conversations[id].entries[1].query # conversations[id].entries[2].query
          /\ conversations[id].updated_at > conversations[id].created_at

(* ==================== claims: the report pipeline ====================== *)

\* C4: when concurrent generate_report requests and direct add_entry calls
\* share one store, every add_entry call adds exactly one entry as one step:
\* as long as a conversation is neither expired nor deleted, its entries are
\* the add_entry calls made for its id, none lost, none twice, in call order.
\* (calls logs the calls an enabled store received; a disabled store keeps no
\* conversation.)
C4_EntriesInCallOrder ==
    \A id \in DOMAIN conversations :
        /\ Len(conversations[id].entries) = Len(calls[id])
        /\ \A i \in 1..Len(calls[id]) :
              /\ conversations[id].entries[i].query = calls[id][i].query
              /\ conversations[id].entries[i].response = calls[id][i].response
\* Two requests that both started before either had saved have both saved to
\* one conversation, r2 first.
C4_Witness ==
    /\ req["r1"].pc = "done"
    /\ req["r2"].pc = "done"
    /\ req["r1"].conversation_id = req["r2"].conversation_id
    /\ req["r1"].conversation_history = <<>>
    /\ req["r2"].conversation_history = <<>>
    /\ req["r1"].conversation_id \in DOMAIN conversations
    /\ Len(conversations[req["r1"].conversation_id].entries) = 2
    /\ conversations[req["r1"].conversation_id].entries[1].query = "qb"
    /\ conversations[req["r1"].conversation_id].entries[2].query = "qa"

\* C5 (as the spec states it): a request whose every attempt at the generative
\* backend failed ends in a failure and returns no response, with or without
\* conversation history.
C5_BackendFailureFailsRequest ==
    \A r \in Reqs :
        (req[r].pc # "idle" /\ req[r].gen = "failed") => req[r].pc = "failed"

HasEvent(l, kind, what, ok) ==
    \E i \in 1..Len(l.events) :
        l.events[i].kind = kind /\ l.events[i].what = what /\ l.events[i].ok = ok
Unresolved(l) ==
    {l.events[i].arg[1] : i \in {j \in 1..Len(l.events) :
        l.events[j].kind = "ret" /\ l.events[j].what = "related_detail" /\ ~l.events[j].ok}}

\* C6: a request fails only where text generation failed; when generation
\* succeeded the response has empty sources if passage retrieval failed, no
\* landmark name if the detail fetch failed, no images if the photo fetch
\* failed, and no related landmark whose name was not resolved.
C6_EnrichmentDegrades ==
    \A r \in Reqs :
        req[r].pc # "idle" =>
            /\ req[r].gen # "failed" => req[r].pc # "failed"
            /\ (req[r].gen = "ok" /\ req[r].pc = "done") =>
                  /\ req[r].response # None
                  /\ HasEvent(req[r], "ret", "search", FALSE) =>
                        req[r].response[1].sources = <<>>
                  /\ HasEvent(req[r], "ret", "name_detail", FALSE) =>
                        req[r].response[1].landmark_name = None
                  /\ HasEvent(req[r], "ret", "photos", FALSE) =>
                        req[r].response[1].images = <<>>
                  /\ \A i \in 1..Len(req[r].response[1].related_landmarks) :
                        req[r].response[1].related_landmarks[i].id \notin Unresolved(req[r])
\* A response was returned although retrieval, the name fetch, the photo fetch
\* and a related landmark's fetch all failed.
C6_Witness ==
    \E r \in Reqs :
        /\ req[r].pc = "done"
        /\ req[r].gen = "ok"
        /\ HasEvent(req[r], "ret", "search", FALSE)
        /\ HasEvent(req[r], "ret", "name_detail", FALSE)
        /\ HasEvent(req[r], "ret", "photos", FALSE)
        /\ Unresolved(req[r]) # {}
        /\ req[r].response[1].report = Text2

Earlier(l, i, kind, what) ==
    \E j \in 1..(i - 1) : l.events[j].kind = kind /\ l.events[j].what = what
ResponseParts ==
    {"report", "sources", "images", "landmark_name", "related_landmarks", "suggested_queries"}

\* C7: within a request, every call of the generative backend comes after the
\* vector search has returned and, when a landmark id is given, after the
\* context's landmark-detail fetch has returned; add_entry is called after
\* every part of the response has been determined, and none is set after it.
C7_StagesInOrder ==
    \A r \in Reqs :
        req[r].pc # "idle" =>
            \A i \in 1..Len(req[r].events) :
                /\ (req[r].events[i].kind = "call" /\ req[r].events[i].what = "generate") =>
                      /\ Earlier(req[r], i, "ret", "search")
                      /\ Truthy(req[r].landmark_id) => Earlier(req[r], i, "ret", "ctx_detail")
                /\ (req[r].events[i].kind = "call" /\ req[r].events[i].what = "add_entry") =>
                      /\ \A part \in ResponseParts : Earlier(req[r], i, "set", part)
                      /\ i = Len(req[r].events)
\* A request with a landmark id has saved its entry after fetching photos and
\* resolving a related landmark.
C7_Witness ==
    \E r \in Reqs :
        /\ req[r].pc = "done"
        /\ Truthy(req[r].landmark_id)
        /\ HasEvent(req[r], "call", "add_entry", TRUE)
        /\ HasEvent(req[r], "ret", "photos", TRUE)
        /\ HasEvent(req[r], "ret", "related_detail", TRUE)
        /\ HasEvent(req[r], "ret", "ctx_detail", TRUE)

\* The entries a conversation has after the sweep at time now.
EntriesKept(id) ==
    IF id \in DOMAIN conversations /\ now - conversations[id].updated_at <= ttl_seconds
    THEN conversations[id].entries
    ELSE <<>>

\* C8: with memory enabled, the step in which a request returns its response
\* appends exactly one entry, to the conversation named in the response; the
\* entry has the response's query, its report as response text, and the
\* response's sources as mappings, in the same order.
C8_EntryMatchesResponse ==
    [][\A r \in Reqs :
          (memory_enabled /\ req[r].pc # "done" /\ req'[r].pc = "done") =>
              LET resp == req'[r].response[1]
                  id == resp.conversation_id
                  old == EntriesKept(id)
              IN /\ id \in DOMAIN conversations'
                 /\ Len(conversations'[id].entries) = Len(old) + 1
                 /\ SubSeq(conversations'[id].entries, 1, Len(old)) = old
                 /\ LET entry == conversations'[id].entries[Len(old) + 1]
                    IN /\ entry.conversation_id = id
                       /\ entry.query = resp.query
                       /\ entry.response = resp.report
                       /\ Len(entry.sources_used) = Len(resp.sources)
                       /\ \A i \in 1..Len(resp.sources) :
                             /\ DOMAIN entry.sources_used[i] = DOMAIN resp.sources[i] \ {"cls"}
                             /\ \A k \in DOMAIN entry.sources_used[i] :
                                   entry.sources_used[i][k] = resp.sources[i][k]
                 /\ \A other \in DOMAIN conversations' \ {id} :
                       /\ other \in DOMAIN conversations
                       /\ conversations'[other].entries = conversations[other].entries
      ]_vars
\* A response with two sources was returned and its entry is the second of
\* its conversation.
C8_Witness ==
    \E r \in Reqs :
        /\ memory_enabled
        /\ req[r].pc = "done"
        /\ Len(req[r].response[1].sources) = 2
        /\ req[r].conversation_id \in DOMAIN conversations
        /\ Len(conversations[req[r].conversation_id].entries) = 2
        /\ Len(conversations[req[r].conversation_id].entries[2].sources_used) = 2

(* ================= claims: the Memory Store, each operation ============= *)

\* C11: with memory enabled, add_entry for an id that is not in the store
\* (never created, deleted, or expired and so swept by this call) returns
\* true and leaves under exactly that id a conversation whose entries are the
\* one new entry.
C11_UnknownIdIsCreated ==
    [][\A id \in ConvIds, e \in EntryInputs :
          (/\ memory_enabled
           /\ AddEntry(id, e.query, Resp1, e.landmark_ids)
           /\ \/ id \notin DOMAIN conversations
              \/ now - conversations[id].updated_at > ttl_seconds) =>
              /\ ret'.op = "add_entry"
              /\ ret'.val = TRUE
              /\ id \in DOMAIN conversations'
              /\ conversations'[id].id = id
              /\ Len(conversations'[id].entries) = 1
              /\ conversations'[id].entries[1].conversation_id = id
              /\ conversations'[id].entries[1].query = e.query
              /\ conversations'[id].entries[1].response = Resp1
      ]_vars
\* add_entry has just swept the expired conversation c1 and started it anew.
C11_Witness ==
    /\ memory_enabled
    /\ ret.op = "add_entry"
    /\ "c1" \in ret.expired
    /\ "c1" \in DOMAIN conversations
    /\ Len(conversations["c1"].entries) = 1
    /\ conversations["c1"].created_at = now
    /\ now > 0

\* C12: with memory enabled, delete_conversation(id) returns true exactly
\* when id is a key of the store at the call; afterwards id is no key and
\* every other conversation is as it was.
C12_DeleteRemovesOnlyItsId ==
    [][\A id \in ConvIds :
          (memory_enabled /\ DeleteConversation(id)) =>
              /\ ret'.op = "delete_conversation"
              /\ ret'.val = (id \in DOMAIN conversations)
              /\ id \notin DOMAIN conversations'
              /\ DOMAIN conversations' = DOMAIN conversations \ {id}
              /\ \A other \in DOMAIN conversations \ {id} :
                    conversations'[other] = conversations[other]
      ]_vars
\* delete_conversation has returned true and an expired conversation under
\* another id is still stored.
C12_Witness ==
    /\ memory_enabled
    /\ ret.op = "delete_conversation"
    /\ ret.val = TRUE
    /\ \E other \in DOMAIN conversations :
          /\ now - conversations[other].updated_at > ttl_seconds
          /\ conversations[other].entries # <<>>

\* C13: with memory enabled, get_conversation_history(id) on an unexpired
\* conversation returns the {query, response} pairs of the add_entry calls
\* made for it, one per entry, in call order; for an unknown id it returns the
\* empty list.
C13_HistoryIsTheCallLog ==
    [][\A id \in ConvIds :
          (memory_enabled /\ GetConversationHistory(id)) =>
              /\ ret'.op = "get_conversation_history"
              /\ (id \in DOMAIN conversations
                    /\ now - conversations[id].updated_at <= ttl_seconds) =>
                    /\ Len(ret'.val) = Len(conversations[id].entries)
                    /\ ret'.val = calls[id]
              /\ id \notin DOMAIN conversations => ret'.val = <<>>
      ]_vars
\* A history of two different turns has been returned.
C13_Witness ==
    /\ memory_enabled
    /\ ret.op = "get_conversation_history"
    /\ Len(ret.val) = 2
    /\ ret.val[1].query # ret.val[2].query

(* ================ claims: functions of the service ====================== *)

Min(a, b) == IF a < b THEN a ELSE b
\* The place in passages of the passage a source was built from.
PlaceOf(passages, source) ==
    CHOOSE p \in 1..Len(passages) : passages[p].text = source.content

\* C14: for a list of passages with M distinct source ids and max_sources >= 0,
\* _prepare_sources returns exactly min(max_sources, M) sources, no two with
\* the same source id, in non-increasing score order, equal scores in passage
\* order, each built from the highest-scoring (earliest on ties) passage of
\* its id.
C14_PrepareSources ==
    (pure.f = "_prepare_sources" /\ pure.result # None) =>
        LET passages == pure.args.passages
            sources == pure.result[1]
            M == Cardinality({passages[i].source_id : i \in 1..Len(passages)})
        IN /\ Len(sources) = Min(pure.args.max_sources, M)
           /\ \A i, j \in 1..Len(sources) :
                 i < j =>
                   /\ sources[i].source_id # sources[j].source_id
                   /\ sources[i].relevance_score >= sources[j].relevance_score
                   /\ sources[i].relevance_score = sources[j].relevance_score =>
                         PlaceOf(passages, sources[i]) < PlaceOf(passages, sources[j])
           /\ \A i \in 1..Len(sources) :
                 /\ \E p \in 1..Len(passages) : passages[p].text = sources[i].content
                 /\ LET p == PlaceOf(passages, sources[i])
                    IN /\ passages[p].source_id = sources[i].source_id
                       /\ passages[p].relevance_score = sources[i].relevance_score
                       /\ \A q \in 1..Len(passages) :
                             passages[q].source_id = sources[i].source_id =>
                                \/ passages[q].relevance_score < passages[p].relevance_score
                                \/ /\ passages[q].relevance_score = passages[p].relevance_score
                                   /\ p <= q
\* Three passages, two of one id with the same score and the third of another
\* id with that score too, cut to two sources.
C14_Witness ==
    /\ pure.f = "_prepare_sources"
    /\ pure.result # None
    /\ Len(pure.args.passages) = 3
    /\ pure.args.max_sources = 2
    /\ pure.args.passages[1].source_id = pure.args.passages[3].source_id
    /\ pure.args.passages[1].source_id # pure.args.passages[2].source_id
    /\ \A i \in 1..3 : pure.args.passages[i].relevance_score = 90
    /\ Len(pure.result[1]) = 2

\* An id starts at place i of text: "LP-" and five digits.
IdAt(text, i) ==
    /\ i >= 1
    /\ i + 7 <= Len(text)
    /\ SubSeq(text, i, i + 2) = <<"L", "P", "-">>
    /\ \A k \in (i + 3)..(i + 7) :
          text[k] \in {"0", "1", "2", "3", "4", "5", "6", "7", "8", "9"}
FirstPlace(text, id) ==
    CHOOSE i \in 1..Len(text) :
        /\ IdAt(text, i) /\ SubSeq(text, i, i + 7) = id
        /\ \A j \in 1..(i - 1) : ~(IdAt(text, j) /\ SubSeq(text, j, j + 7) = id)

C16_SuggestedQueries ==
    (pure.f = "_generate_suggested_queries" /\ pure.result # None) =>
        /\ Len(SuggestionPool) = 5
        /\ pure.result[1] = <<"What is the architectural style of this landmark?",
                              "When was this landmark designated?",
                              "Who was the architect of this landmark?">>
        /\ \A i \in 1..3 : pure.result[1][i] = SuggestionPool[i]
\* Suggestions were made for a non-empty query and a report naming a landmark.
C16_Witness ==
    /\ pure.f = "_generate_suggested_queries"
    /\ pure.result # None
    /\ pure.args.original_query = "Who built it?"
    /\ pure.args.report_text = LP1
    /\ Len(pure.result[1]) = 3

(* ========================= claims: conversations ======================== *)

\* C17 (as the spec states it): with memory enabled, once /generate has
\* returned conversation id C, a later /generate carrying C within the TTL
\* runs with the first turn's {query, response} as its history, and when it
\* has succeeded conversation C holds both turns in request order.
C17_SecondTurnContinues ==
    (/\ memory_enabled
     /\ now <= ttl_seconds
     /\ req["r1"].pc = "done"
     /\ req["r2"].pc # "idle"
     /\ req["r2"].conversation_id = req["r1"].response[1].conversation_id) =>
        /\ req["r2"].conversation_history =
              <<[query |-> req["r1"].response[1].query,
                 response |-> req["r1"].response[1].report]>>
        /\ req["r2"].pc = "done" =>
              /\ req["r2"].conversation_id \in DOMAIN conversations
              /\ HistoryOf(conversations[req["r2"].conversation_id]) =
                    <<[query |-> req["r1"].response[1].query,
                       response |-> req["r1"].response[1].report],
                      [query |-> req["r2"].response[1].query,
                       response |-> req["r2"].response[1].report]>>


\* C18: in every reachable state of the Memory Store each entry is held by
\* exactly one conversation, its conversation_id is the key under which that
\* conversation is stored, and that key is the conversation's own id.
HoldersOf(entry) ==
    {k \in DOMAIN conversations :
        \E i \in 1..Len(conversations[k].entries) : conversations[k].entries[i] = entry}
C18_EntriesBelongToTheirKey ==
    \A k \in DOMAIN conversations :
        /\ conversations[k].id = k
        /\ \A i \in 1..Len(conversations[k].entries) :
              /\ conversations[k].entries[i].conversation_id = k
              /\ HoldersOf(conversations[k].entries[i]) = {k}
\* Two conversations that were given the same query and response.
C18_Witness ==
    \E k1, k2 \in DOMAIN conversations :
        /\ k1 # k2
        /\ conversations[k1].entries # <<>> /\ conversations[k2].entries # <<>>
        /\ conversations[k1].entries[1].query = conversations[k2].entries[1].query
        /\ conversations[k1].entries[1].response = conversations[k2].entries[1].response


(* ===================== claims: the life of a request ==================== *)

\* START, CONVERSATION_RESOLVED, CONTEXT_BUILT, TEXT_GENERATED,
\* LANDMARKS_RESOLVED, RESPONSE_ASSEMBLED, PERSISTED as the request logs them.
Stages ==
    <<Ev("call", "generate_report", TRUE), Ev("set", "conversation", TRUE),
      Ev("set", "context", TRUE), Ev("set", "report", TRUE), Ev("set", "landmarks", TRUE),
      Ev("set", "response", TRUE), Ev("call", "add_entry", TRUE)>>
IsStage(e) == \E i \in 1..Len(Stages) : Stages[i] = e
StagesPassed(l) == SelectSeq(l.events, IsStage)
IsExternalCall(e) == e.kind = "call" /\ e.what \notin {"generate_report", "add_entry"}
\* One vector search, three detail fetches, one photo fetch, one detail
\* fetch for each of at most RelatedLimit related landmarks, and the
\* attempts at the generative backend.
MostExternalCalls == 5 + RelatedLimit + MaxAttempts

\* C19: when every external call comes back, a generate_report request ends
\* either DONE, its response returned after add_entry was called, or FAILED,
\* with no response; up to there it passes START, CONVERSATION_RESOLVED,
\* CONTEXT_BUILT, TEXT_GENERATED, LANDMARKS_RESOLVED, RESPONSE_ASSEMBLED and
\* PERSISTED in this order, none skipped and none twice (all seven when it
\* ends DONE), and it makes at most MostExternalCalls external calls.
C19_RequestEndsInOrder ==
    /\ [](req["r1"].pc # "idle" =>
            /\ IsPrefix(StagesPassed(req["r1"]), Stages)
            /\ Len(SelectSeq(req["r1"].events, IsExternalCall)) <= MostExternalCalls
            /\ req["r1"].pc = "done" <=> StagesPassed(req["r1"]) = Stages
            /\ req["r1"].pc = "done" <=> req["r1"].response # None
            /\ req["r1"].pc = "failed" => Len(StagesPassed(req["r1"])) < Len(Stages) - 1)
    /\ (req["r1"].pc # "idle") ~> (req["r1"].pc \in {"done", "failed"})
    /\ [][req["r1"].pc \in {"done", "failed"} => req'["r1"] = req["r1"]]_vars
\* A request that ended DONE after two failed attempts at the backend, and
\* one that ended FAILED, are both reachable; this is the first.
C19_Witness ==
    /\ req["r1"].pc = "done"
    /\ req["r1"].attempt = MaxAttempts
    /\ HasEvent(req["r1"], "ret", "ctx_detail", TRUE)
    /\ HasEvent(req["r1"], "ret", "photos", TRUE)
    /\ HasEvent(req["r1"], "ret", "related_detail", TRUE)


(* ================== claims: the text generation gateway ================= *)

IsGenerate(e, kind) == e.kind = kind /\ e.what = "generate"
AttemptsMade(l) == Len(SelectSeq(l.events, LAMBDA e : IsGenerate(e, "call")))
\* Another attempt follows the one that ended at place i of the log.
Retried(l, i) == \E j \in (i + 1)..Len(l.events) : IsGenerate(l.events[j], "call")

\* C20 (as the spec states it): a request invokes the generative backend at
\* most 3 times, on the first-turn path and on the continuation path alike;
\* another attempt is made only after a transient API, connection or
\* rate-limit error; a non-transient error is followed by no further attempt
\* and leaves generate_text wrapped as the generic error (ValueError).
C20_RetryOnlyIfTransient ==
    req["r1"].pc # "idle" =>
        /\ AttemptsMade(req["r1"]) <= MaxAttempts
        /\ \A i \in 1..Len(req["r1"].events) :
              IsGenerate(req["r1"].events[i], "ret") =>
                 /\ Retried(req["r1"], i) => req["r1"].events[i].arg[1].kind = "api_error"
                 /\ req["r1"].events[i].arg[1].kind \in {"api_rejected", "error"} =>
                       /\ ~Retried(req["r1"], i)
                       /\ req["r1"].events[i].arg[1].exc = "ValueError"


(* ======================= claims: the metadata gateway =================== *)

\* C21 (as the spec states it): when the backend reports "not found",
\* get_landmark_by_id returns none, raising nothing and without a further
\* attempt; a further attempt is made only after a connection failure, there
\* are at most 3 attempts, and the failure is raised once they are used up.
C21_NotFoundIsNone ==
    (pure.f = "get_landmark_by_id" /\ pure.result # None) =>
        LET replies == pure.args.replies
            res == pure.result[1]
        IN /\ res.attempts <= MetadataAttempts
           /\ \A i \in 1..(res.attempts - 1) : replies[i] = "unreachable"
           /\ replies[1] = "not_found" =>
                 res.exc = "none" /\ res.value = None /\ res.attempts = 1
           /\ (\A i \in 1..MetadataAttempts : replies[i] = "unreachable") =>
                 res.exc = "RequestException" /\ res.attempts = MetadataAttempts


(* ================ claims: landmarks, images, related names ============== *)

SourceIdsOf(docs) == {docs[i].source_id : i \in 1..Len(docs)}

\* C22: a request with landmark_id = L ends with a text that names no
\* landmark other than L, the gateway gave L's name N and the retriever gave
\* passages: the response has landmark_id = L, landmark_name = N, no related
\* landmarks, and one source for each distinct source id of the passages, up
\* to max_sources.
C22_FocusOnlyResponse ==
    LET l == req["r1"]
    IN (/\ l.pc = "done"
        /\ Truthy(l.landmark_id)
        /\ \A i \in 1..Len(l.landmark_ids) : l.landmark_ids[i] = l.landmark_id[1]
        /\ HasEvent(l, "ret", "name_detail", TRUE)
        /\ l.relevant_passages # <<>>) =>
           /\ l.response[1].landmark_id = l.landmark_id
           /\ l.response[1].landmark_name = Some(NameOf(l.landmark_id[1]))
           /\ l.response[1].related_landmarks = <<>>
           /\ Len(l.response[1].sources) =
                 Min(l.max_sources, Cardinality(SourceIdsOf(l.relevant_passages)))
           /\ Cardinality(SourceIdsOf(l.response[1].sources)) = Len(l.response[1].sources)
           /\ SourceIdsOf(l.response[1].sources) \subseteq SourceIdsOf(l.relevant_passages)
\* The text names L itself, and max_sources cuts the sources short.
C22_Witness ==
    /\ req["r1"].pc = "done"
    /\ req["r1"].landmark_id = Some(LP1)
    /\ req["r1"].generated_text = TextFocus
    /\ HasEvent(req["r1"], "ret", "name_detail", TRUE)
    /\ Cardinality(SourceIdsOf(req["r1"].relevant_passages)) > req["r1"].max_sources
    /\ req["r1"].response[1].sources # <<>>


(* ======================= claims: the /generate endpoint ================= *)

\* C23: whenever POST /generate has answered a request, the response has at
\* most the request's max_sources sources, and no images if the request set
\* include_images to false.
C23_ResponseWithinRequest ==
    \A r \in Reqs :
        (inbound[r] # None /\ req[r].pc = "done") =>
            /\ Len(req[r].response[1].sources) <= inbound[r][1].max_sources
            /\ (~inbound[r][1].include_images => req[r].response[1].images = <<>>)


(* ===================== claims: conversation resolution ================== *)

\* C24: a generate_report call whose conversation id the store does not hold,
\* or holds expired, gets past _initialize_conversation to the vector search
\* with an empty history; and every call of the generative backend uses the
\* continuation template if the request's history is non-empty and the
\* research template if it is empty, with or without a conversation id.
C24_TemplateFollowsHistory ==
    /\ [][\A r \in Reqs :
            (req[r].pc = "idle" /\ req'[r].pc # "idle") =>
                /\ req'[r].pc = "search"
                /\ (\/ req'[r].conversation_id \notin DOMAIN conversations
                    \/ req'[r].conversation_id
                          \in ExpiredIds(conversations, memory_enabled, now, ttl_seconds))
                      => req'[r].conversation_history = <<>>]_vars
    /\ [](\A r \in Reqs :
            req[r].pc # "idle" =>
                \A i \in 1..Len(req[r].events) :
                    IsGenerate(req[r].events[i], "call") =>
                        /\ req[r].events[i].arg = Some("conversation_continuation")
                              <=> req[r].conversation_history # <<>>
                        /\ req[r].events[i].arg = Some("landmark_research")
                              <=> req[r].conversation_history = <<>>)
\* A request that named a conversation the store did not hold has ended, on
\* the research template.
C24_Witness ==
    /\ req["r1"].pc = "done"
    /\ req["r1"].conversation_id \in ClientIds
    /\ memory_enabled
    /\ req["r1"].conversation_history = <<>>
    /\ \E i \in 1..Len(req["r1"].events) :
          /\ IsGenerate(req["r1"].events[i], "call")
          /\ req["r1"].events[i].arg = Some("landmark_research")


\* C25: once _process_landmarks has run for a request with landmark_id = L,
\* the landmark id list holds L exactly once and no id twice; it is the list
\* of extracted ids if L is among them, and that list with L added at its
\* end otherwise; the MemoryEntry saved for the request holds this very list.
C25_FocusIncludedOnce ==
    LET l == req["r1"]
    IN (l.pc # "idle" /\ HasEvent(l, "set", "report", TRUE) /\ Truthy(l.landmark_id)) =>
        LET L == l.landmark_id[1]
            extracted == _extract_landmarks_from_text(l.generated_text).landmark_ids
        IN /\ Cardinality({i \in 1..Len(l.landmark_ids) : l.landmark_ids[i] = L}) = 1
           /\ \A i, j \in 1..Len(l.landmark_ids) :
                 l.landmark_ids[i] = l.landmark_ids[j] => i = j
           /\ l.landmark_ids = IF InSeq(L, extracted) THEN extracted ELSE Append(extracted, L)
           /\ (l.pc = "done" /\ memory_enabled) =>
                 LET entries == conversations[l.conversation_id].entries
                 IN entries[Len(entries)].landmark_ids = l.landmark_ids
\* The text names two other landmarks, and the entry is saved.
C25_Witness ==
    /\ req["r1"].pc = "done"
    /\ memory_enabled
    /\ req["r1"].landmark_id = Some(LP1)
    /\ req["r1"].generated_text = TextOthers
    /\ Len(req["r1"].landmark_ids) = 3
    /\ req["r1"].landmark_ids[3] = LP1


\* The landmark ids whose detail call for the related landmarks gave a name.
Resolved(l) ==
    {l.events[i].arg[1] : i \in {j \in 1..Len(l.events) :
        l.events[j].kind = "ret" /\ l.events[j].what = "related_detail" /\ l.events[j].ok}}
\* The id occurs in the text.
Mentions(text, id) == \E i \in 1..Len(text) : IdAt(text, i) /\ SubSeq(text, i, i + 7) = id

\* C26: in every response related_landmarks has at most 5 entries, no two
\* with the same id; each id occurs in the generated text and had its name
\* resolved by the metadata gateway; the entries stand in the order in which
\* their ids first occur in the text; none has the request's landmark_id.
C26_RelatedLandmarks ==
    LET l == req["r1"]
    IN l.pc = "done" =>
        LET related == l.response[1].related_landmarks
        IN /\ Len(related) <= 5
           /\ \A i, j \in 1..Len(related) :
                 i < j => /\ related[i].id # related[j].id
                          /\ FirstPlace(l.generated_text, related[i].id)
                                < FirstPlace(l.generated_text, related[j].id)
           /\ \A i \in 1..Len(related) :
                 /\ Mentions(l.generated_text, related[i].id)
                 /\ related[i].id \in Resolved(l)
                 /\ related[i].name = NameOf(related[i].id)
                 /\ l.landmark_id # Some(related[i].id)
\* The text names seven landmarks, one of them twice; no landmark was
\* requested, and five are related.
C26_Witness ==
    /\ req["r1"].pc = "done"
    /\ req["r1"].generated_text = TextMany
    /\ req["r1"].landmark_id = None
    /\ Len(req["r1"].response[1].related_landmarks) = 5


\* C27: related_landmarks of a response never holds the primary landmark of
\* the request: the requested landmark id or, if none was requested, the
\* first id extracted from the generated text, whose photos are fetched.
C27_PrimaryNotRelated ==
    LET l == req["r1"]
    IN (l.pc = "done" /\ (Truthy(l.landmark_id) \/ l.landmark_ids # <<>>)) =>
        LET primary == IF Truthy(l.landmark_id) THEN l.landmark_id[1] ELSE l.landmark_ids[1]
        IN \A i \in 1..Len(l.response[1].related_landmarks) :
              l.response[1].related_landmarks[i].id # primary


\* The photo calls of the request, in order.
PhotoCalls(l) == SelectSeq(l.events, LAMBDA e : e.kind = "call" /\ e.what = "photos")

\* C28: generate_report never calls the photo operation more than once; once
\* the landmark id list stands, it has called it if and only if
\* include_images is true and the list is non-empty, and then for the
\* requested landmark id if there is one and else for the first extracted id;
\* a response made without a photo call has no images.
C28_PhotoCall ==
    LET l == req["r1"]
    IN l.pc # "idle" =>
        /\ Len(PhotoCalls(l)) <= 1
        /\ HasEvent(l, "set", "landmarks", TRUE) =>
              /\ Len(PhotoCalls(l)) = 1 <=> (l.include_images /\ l.landmark_ids # <<>>)
              /\ Len(PhotoCalls(l)) = 1 =>
                    PhotoCalls(l)[1].arg =
                        (IF l.landmark_id # None THEN l.landmark_id
                         ELSE Some(_extract_landmarks_from_text(l.generated_text).landmark_ids[1]))
        /\ ~HasEvent(l, "set", "landmarks", TRUE) => PhotoCalls(l) = <<>>
        /\ (l.pc = "done" /\ PhotoCalls(l) = <<>>) => l.response[1].images = <<>>
\* No landmark was requested, and the photos of the first extracted one came.
C28_Witness ==
    /\ req["r1"].pc = "done"
    /\ req["r1"].landmark_id = None
    /\ req["r1"].generated_text = Text2
    /\ Len(PhotoCalls(req["r1"])) = 1
    /\ PhotoCalls(req["r1"])[1].arg = Some(LP2)
    /\ req["r1"].response[1].images # <<>>


\* C29: every id that _extract_landmarks_from_text returns stands in the text
\* as "LP-" and exactly five digits: the character after the fifth digit, if
\* there is one, is not a digit.
C29_ExactlyFiveDigits ==
    (pure.f = "_extract_landmarks_from_text" /\ pure.result # None) =>
        LET text == pure.args.text
            ids == pure.result[1].landmark_ids
        IN \A a \in 1..Len(ids) :
              \E i \in 1..Len(text) :
                  /\ IdAt(text, i)
                  /\ SubSeq(text, i, i + 7) = ids[a]
                  /\ i + 8 <= Len(text) => text[i + 8] \notin Digits


(* ========================= claims: the retriever ======================== *)

\* C30: whatever hits the vector-search backend returns, no passage of the
\* request's context and no source of its response has a relevance score
\* below 0.6.
C30_ScoreFloor ==
    \A r \in Reqs :
        req[r].pc # "idle" =>
            /\ \A i \in 1..Len(req[r].relevant_passages) :
                  req[r].relevant_passages[i].relevance_score >= MinScore
            /\ req[r].pc = "done" =>
                  \A i \in 1..Len(req[r].response[1].sources) :
                      req[r].response[1].sources[i].relevance_score >= MinScore


(* ================= claims: the conversation endpoints =================== *)

\* C31: GET and DELETE /conversations/{conversation_id} answer 404 for a
\* conversation id the store does not hold (with memory enabled, so that the
\* history is empty and the delete returns false).
C31_UnknownIdIs404 ==
    (/\ pure.f \in ConversationEndpoints
     /\ pure.result # None
     /\ memory_enabled
     /\ pure.args.conversation_id \notin DOMAIN pure.args.conversations) =>
        pure.result[1].status_code = 404


(* =================== claims: requests and the store ===================== *)

C33_ReadsChangeNothing ==
    /\ [][ret'.op \in {"get_conversation", "get_conversation_history"} =>
            /\ DOMAIN conversations' \subseteq DOMAIN conversations
            /\ \A id \in DOMAIN conversations' : conversations'[id] = conversations[id]
            /\ \A id \in DOMAIN conversations \ DOMAIN conversations' :
                  memory_enabled /\ now - conversations[id].updated_at > ttl_seconds]_vars
    /\ [][\A id \in DOMAIN conversations \cap DOMAIN conversations' :
            conversations'[id].updated_at # conversations[id].updated_at =>
                ret'.op = "add_entry"]_vars
\* The history of a conversation was read: another conversation expired, and
\* the one that stays has aged and keeps its entries.
C33_Witness ==
    /\ ret.op = "get_conversation_history"
    /\ ret.expired # {}
    /\ \E id \in DOMAIN conversations :
          /\ conversations[id].updated_at < now
          /\ conversations[id].entries # <<>>


\* C34: with memory enabled, add_entry for a conversation whose age exceeds
\* the TTL discards it first: after the call the conversation under that id
\* is a new one that holds the new entry and no other, and its landmark_focus
\* is the first landmark id of the new entry, or unset if the entry has none.
C34_AddEntryToExpired ==
    [][\A id \in KnownIds, e \in EntryInputs :
          (/\ AddEntry(id, e.query, Resp1, e.landmark_ids)
           /\ memory_enabled
           /\ id \in DOMAIN conversations
           /\ now - conversations[id].updated_at > ttl_seconds) =>
              /\ id \in DOMAIN conversations'
              /\ Len(conversations'[id].entries) = 1
              /\ conversations'[id].entries[1].query = e.query
              /\ conversations'[id].entries[1].landmark_ids = e.landmark_ids
              /\ conversations'[id].created_at = now
              /\ conversations'[id].updated_at = now
              /\ conversations'[id].landmark_focus =
                    (IF e.landmark_ids # <<>> THEN Some(e.landmark_ids[1]) ELSE None)]_vars
\* An entry has been added under an id whose conversation had expired.
C34_Witness ==
    /\ ret.op = "add_entry"
    /\ memory_enabled
    /\ \E id \in ret.expired :
          /\ id \in DOMAIN conversations
          /\ Len(conversations[id].entries) = 1
          /\ conversations[id].created_at = now
          /\ now > 0


(* ================ claims: requests that run concurrently ================ *)

\* C35: whenever a generate_report request appends its entry, the history it
\* was generated from is the list of the entries that stand before it in the
\* conversation.
C35_HistoryIsWhatPrecedes ==
    [][\A r \in Reqs :
          (req[r].pc \notin {"idle", "done"} /\ req'[r].pc = "done" /\ memory_enabled) =>
              LET entries == conversations'[req'[r].conversation_id].entries
                  history == req'[r].conversation_history
              IN /\ Len(entries) = Len(history) + 1
                 /\ \A i \in 1..Len(history) :
                       /\ history[i].query = entries[i].query
                       /\ history[i].response = entries[i].response]_vars


\* C36: with memory enabled and no expiry, a request that read a history
\* with entries resolved its conversation; if the conversation is no longer
\* in the store when the request ends, it was deleted meanwhile (the delete
\* returned true), and the request's own last step does not put it back.
C36_DeletedStaysDeleted ==
    [][\A r \in Reqs :
          (/\ memory_enabled
           /\ req[r].pc \notin {"idle", "done", "failed"}
           /\ req[r].conversation_history # <<>>
           /\ req[r].conversation_id \notin DOMAIN conversations
           /\ req'[r].pc = "done") =>
              req[r].conversation_id \notin DOMAIN conversations']_vars


\* C37: with memory enabled, when a request with landmark_id = L has ended
\* in a response and its entry is the first of its conversation that carries
\* landmark ids, the conversation's landmark_focus is L.
C37_FocusIsRequestedLandmark ==
    LET l == req["r1"]
    IN (/\ l.pc = "done"
        /\ memory_enabled
        /\ Truthy(l.landmark_id)
        /\ Len(conversations[l.conversation_id].entries) = 1
        /\ conversations[l.conversation_id].entries[1].landmark_ids # <<>>) =>
           conversations[l.conversation_id].landmark_focus = l.landmark_id

====
